---- MODULE Spec2Model ----
(***************************************************************************)
(* Model of the PhotoUploader upload engine.                               *)
(*                                                                         *)
(*   Spec       one call of DropboxUploader.upload_file on one local file, *)
(*              stepped at the granularity of remote calls                 *)
(*              (src/src/dropbox_uploader.py).                             *)
(*   SpecBatch  one batch run by PhotoUploaderApp._start_upload and        *)
(*              _upload_thread with its worker pool (src/src/main.py).     *)
(*                                                                         *)
(* The remote storage service and the local file system are the            *)
(* environment: every remote call may return or raise, and the local file  *)
(* may change on disk while it is being uploaded.                          *)
(*                                                                         *)
(* In SpecBatch the market and the site ID are taken as entered, each      *)
(* handler of the UI thread is one step, and root.after is taken not to    *)
(* raise while the main loop runs.  Definitions named ...Strict, ...Never, *)
(* ...Stale and the like are deliberately wrong variants of the definition *)
(* that follows them; they are used to test that a property depends on     *)
(* that line of the code.                                                  *)
(***************************************************************************)
EXTENDS Integers, Sequences, FiniteSets, TLC

\* ------------------------------------------------------------------------
\* Program constants (src/src/config.py)
\* ------------------------------------------------------------------------
CHUNK_SIZE == 8 * 1024 * 1024
MAX_RETRIES == 3
PARALLEL_UPLOADS == 4
PROGRESS_UPDATE_THRESHOLD == 25

\* ------------------------------------------------------------------------
\* Bounds of the model
\* ------------------------------------------------------------------------
\* files of up to MaxChunks full chunks plus one byte
MaxChunks == 3
\* cap on the remote calls of one upload_file call (only a loop that no
\* longer advances the read pointer can get there)
MaxCalls == MaxChunks + 3
\* media files on the local disk that the user can pick
MaxFiles == 2
\* batches started in one run of the application
MaxBatches == 1
\* button clicks of the user in one run of the application
MaxClicks == 4
\* files of a batch in SpecPool: one more than the pool has workers
MaxPoolTasks == 5
\* files of a batch in SpecDrain
MaxTasks == 10
\* files of a batch in SpecLock
MaxLockTasks == 3
\* calls of create_folder in SpecFolder
MaxFolderCalls == 3
\* request_config and validate_site calls in SpecWebhook
MaxWebhookCalls == 3

\* file lengths around every chunk boundary
FileSizes ==
  { s \in { k * CHUNK_SIZE + d : k \in 0..MaxChunks, d \in {-1, 0, 1} } : s >= 0 }

\* what one remote call does: return, raise ApiError (retryable), raise
\* ApiError whose text holds 'not_found', raise another exception
\* (transport error, timeout)
CallResults == {"ok", "api_error", "not_found", "exception"}

NoCursor == [session_id |-> 0, offset |-> 0]

VARIABLES
  \* --- upload_file -------------------------------------------------------
  disk_size,      \* bytes of the local file on disk now
  file_changed,   \* the file changed on disk after it was measured
  file_size,      \* os.path.getsize(local_path), line 102
  u_pc,           \* position in upload_file / _upload_chunked
  attempt,        \* loop variable of `for attempt in range(MAX_RETRIES)`
  attempts_made,  \* iterations of that loop begun so far
  tell,           \* file_obj.tell()
  reads,          \* chunk reads of the current attempt
  cursor,         \* UploadSessionCursor of the current attempt
  result,         \* return value of upload_file ("none" while running)
  call_log,       \* remote calls made by this upload_file call, in order
  has_callback,   \* a progress_callback was passed to upload_file
  callbacks,      \* the calls of progress_callback: << bytes, total >>
  remote_sessions,\* remote: bytes acknowledged per session id
  remote_files    \* remote: sizes of the files committed at dropbox_path

upload_vars ==
  << disk_size, file_changed, file_size, u_pc, attempt, attempts_made, tell,
     reads, cursor, result, call_log, has_callback, callbacks,
     remote_sessions, remote_files >>

VARIABLES
  \* --- PhotoUploaderApp fields (src/src/main.py 92-117) -------------------
  selected_folder,     \* "None", "folder" or "Multiple Files"
  files_to_upload,     \* list of the selected files
  total_size_bytes,
  validated_site_info, \* the accepted validation result, or NoSiteInfo
  upload_in_progress,
  files_uploaded,
  files_failed,
  last_progress_update,
  \* --- widgets --------------------------------------------------------------
  upload_btn,          \* state of each button: "normal" or "disabled"
  validate_btn,
  select_folder_btn,
  validating,          \* a _validate_site_thread is running
  ui_queue,            \* callbacks posted with root.after(0, ...), in order
  progress_shown,      \* what _update_progress_parallel displayed last
  \* --- _upload_thread and its pool -----------------------------------------
  t_pc,                \* position of _upload_thread
  tasks,               \* the list the submit loop iterates over
  futures,             \* per task: unsubmitted, queued, running, true, false
  consumed,            \* tasks whose future as_completed has yielded
  bytes_uploaded,
  completed_count,
  upload_lock,         \* holder of self.upload_lock: free, thread or ui
  folder_results,      \* return values of the create_folder calls made so far
  \* --- the inputs of the form ----------------------------------------------
  selected_market,     \* text of the market combobox
  content_type,        \* the content type radio button that is set
  site_id_var,         \* text of the site ID entry
  validation_args,     \* (market, site_id) given to the latest _validate_site_thread
  webhook_results,     \* what the request_config and validate_site calls returned
  \* --- environment ----------------------------------------------------------
  on_disk,             \* media files present on the local disk
  fallible,            \* files for whose upload a remote call may raise
  truncated,           \* files made shorter on disk while a worker uploads them
  empty_appends,       \* appends of an empty chunk made so far, modulo 2
  remote_store,        \* remote: << name, file >> of the files committed for the batch
  remote_folder,       \* remote: what lies at the folder path: absent, folder, file
  notifications,       \* webhook notifications sent for the current batch
  delivery_failed,     \* a notification of the current batch was not delivered
  last_validation,     \* outcome of the latest validation: none, succeeded, failed
  batch_no,            \* batches started so far
  clicks               \* button clicks so far

app_vars ==
  << selected_folder, files_to_upload, total_size_bytes, validated_site_info,
     upload_in_progress, files_uploaded, files_failed, last_progress_update,
     upload_btn, validate_btn, select_folder_btn, validating, ui_queue,
     progress_shown, t_pc, tasks, futures, consumed, bytes_uploaded,
     completed_count, upload_lock, folder_results, on_disk, fallible,
     truncated, empty_appends, remote_store, remote_folder, notifications,
     delivery_failed, last_validation, batch_no, clicks, selected_market,
     content_type, site_id_var, validation_args, webhook_results >>

input_vars ==
  << selected_market, content_type, site_id_var, validation_args,
     webhook_results >>

vars == << upload_vars, app_vars >>

\* ------------------------------------------------------------------------
\* Helpers
\* ------------------------------------------------------------------------
Min(a, b) == IF a <= b THEN a ELSE b
Max(a, b) == IF a >= b THEN a ELSE b

\* ceil(s / c) for s >= 0, c > 0
CeilDiv(s, c) == (s + c - 1) \div c

\* number of entries of log that satisfy Test
CountLog(log, Test(_)) == Cardinality({ i \in 1..Len(log) : Test(log[i]) })

\* file_obj.read(n): the bytes between the read pointer and the end of the
\* file, at most n of them
ReadLen(n, pos, disk) == Min(n, Max(0, disk - pos))

\* file_obj.read(): everything up to the end of the file
ReadAll(pos, disk) == Max(0, disk - pos)

\* lines 146 and 159: `file_obj.read(CHUNK_SIZE)`
ReadHalfChunk(pos, disk) == ReadLen(CHUNK_SIZE \div 2, pos, disk)
ReadChunk(pos, disk) == ReadLen(CHUNK_SIZE, pos, disk)

\* line 107: `if file_size <= CHUNK_SIZE`
IsSmallFileStrict(size) == size < CHUNK_SIZE
IsSmallFile(size) == size <= CHUNK_SIZE

\* line 158: `while file_obj.tell() < file_size`
LoopStopsEarly(pos, size) == pos + 1 < size
LoopContinues(pos, size) == pos < size

\* line 161: `if file_obj.tell() < file_size`
MoreToComeInclusive(pos, size) == pos <= size
MoreToCome(pos, size) == pos < size

\* line 126: `if 'not_found' in str(e)`
IsNotFoundNever(res) == FALSE
IsNotFound(res) == res = "not_found"

\* line 131: `if attempt == MAX_RETRIES - 1`
LastAttempt(a) == a = MAX_RETRIES - 1

\* line 164: `cursor.offset = file_obj.tell()`
AdvanceCursorStale(cur, pos) == cur
AdvanceCursor(cur, pos) == [cur EXCEPT !.offset = pos]

\* lines 149-152: the cursor of the session that session_start returned
SessionCursorOfOtherSession(id, pos) == [session_id |-> id + 1, offset |-> pos]
SessionCursor(id, pos) == [session_id |-> id, offset |-> pos]

CallbackOncePerFile(calls, supplied, bytes, total) ==
  IF supplied /\ calls = << >> THEN << << bytes, total >> >> ELSE calls

\* lines 115-116, 154-155 and 173-174: `if progress_callback:
\* progress_callback(..., file_size)`
progress_callback(calls, supplied, bytes, total) ==
  IF supplied THEN Append(calls, << bytes, total >>) ELSE calls

WriteModeOverwrite == "overwrite"

\* lines 112 and 169: `mode=WriteMode.add`
WriteModeUsed == "add"

LogEntry(op, len, pos, cur, acked, res) ==
  [ op |-> op, attempt |-> attempt, len |-> len, pos |-> pos,
    session_id |-> cur.session_id, offset |-> cur.offset, acked |-> acked,
    mode |-> IF op \in {"files_upload", "session_finish"}
             THEN WriteModeUsed ELSE "none",
    result |-> res ]

\* bytes the remote has acknowledged for the session of cur
Acked(cur) ==
  IF cur.session_id \in 1..Len(remote_sessions)
  THEN remote_sessions[cur.session_id] ELSE -1

\* ------------------------------------------------------------------------
\* Init
\* ------------------------------------------------------------------------
InitUpload ==
  /\ disk_size \in FileSizes
  /\ file_changed = FALSE
  /\ file_size = 0
  /\ u_pc = "call"
  /\ attempt = 0
  /\ attempts_made = 0
  /\ tell = 0
  /\ reads = 0
  /\ cursor = NoCursor
  /\ result = "none"
  /\ call_log = << >>
  /\ has_callback \in BOOLEAN
  /\ callbacks = << >>
  /\ remote_sessions = << >>
  /\ remote_files = << >>

\* ------------------------------------------------------------------------
\* upload_file (src/src/dropbox_uploader.py 89-139)
\* ------------------------------------------------------------------------
\* line 102
upload_file_getsize ==
  /\ UNCHANGED app_vars
  /\ u_pc = "call"
  /\ file_size' = disk_size
  /\ attempt' = 0
  /\ u_pc' = "for"
  /\ UNCHANGED << has_callback, callbacks, disk_size, file_changed, attempts_made,
                  tell, reads, cursor,
                  result, call_log, remote_sessions, remote_files >>

\* lines 104-107 and 139: next iteration of the retry loop opens the file
\* and picks the branch; a loop that runs out returns False
upload_file_open ==
  /\ UNCHANGED app_vars
  /\ u_pc = "for"
  /\ IF attempt < MAX_RETRIES
     THEN /\ attempts_made' = attempts_made + 1
          /\ tell' = 0
          /\ reads' = 0
          /\ cursor' = NoCursor
          /\ u_pc' = IF IsSmallFile(file_size) THEN "single" ELSE "start"
          /\ UNCHANGED result
     ELSE /\ result' = "false"
          /\ u_pc' = "returned"
          /\ UNCHANGED << attempts_made, tell, reads, cursor >>
  /\ UNCHANGED << has_callback, callbacks, disk_size, file_changed, file_size,
                  attempt, call_log,
                  remote_sessions, remote_files >>

\* lines 125-137: the except clauses of upload_file
upload_file_except(res) ==
  IF res = "exception"
  THEN /\ result' = "false"
       /\ u_pc' = "returned"
       /\ UNCHANGED attempt
  ELSE IF IsNotFound(res)
  THEN /\ result' = "false"
       /\ u_pc' = "returned"
       /\ UNCHANGED attempt
  ELSE IF LastAttempt(attempt)
  THEN /\ result' = "false"
       /\ u_pc' = "returned"
       /\ UNCHANGED attempt
  ELSE /\ attempt' = attempt + 1
       /\ u_pc' = "for"
       /\ UNCHANGED result

\* lines 108-119: single-shot upload of the whole file
upload_file_single ==
  /\ UNCHANGED app_vars
  /\ u_pc = "single"
  /\ \E res \in CallResults :
       LET n == ReadAll(tell, disk_size) IN
       /\ tell' = tell + n
       /\ call_log' = Append(call_log,
                        LogEntry("files_upload", n, tell + n, NoCursor, -1, res))
       /\ IF res = "ok"
          THEN /\ remote_files' = Append(remote_files, n)
               /\ callbacks' = progress_callback(callbacks, has_callback,
                                                 file_size, file_size)
               /\ result' = "true"
               /\ u_pc' = "returned"
               /\ UNCHANGED attempt
          ELSE /\ UNCHANGED << remote_files, callbacks >>
               /\ upload_file_except(res)
  /\ UNCHANGED << has_callback, disk_size, file_changed, file_size, attempts_made, reads,
                  cursor, remote_sessions >>

\* ------------------------------------------------------------------------
\* _upload_chunked (src/src/dropbox_uploader.py 141-181), called at line 123
\* ------------------------------------------------------------------------
\* lines 179-181 and 123: any exception makes _upload_chunked return False,
\* which upload_file returns as it is
upload_chunked_except ==
  /\ result' = "false"
  /\ u_pc' = "returned"

\* lines 146-152: first chunk and session start
upload_chunked_start ==
  /\ UNCHANGED app_vars
  /\ u_pc = "start"
  /\ \E res \in CallResults :
       LET n == ReadChunk(tell, disk_size) IN
       /\ tell' = tell + n
       /\ reads' = reads + 1
       /\ call_log' = Append(call_log,
                        LogEntry("session_start", n, tell + n, NoCursor, 0, res))
       /\ IF res = "ok"
          THEN /\ remote_sessions' = Append(remote_sessions, n)
               /\ cursor' = SessionCursor(Len(remote_sessions) + 1, tell + n)
               /\ callbacks' = progress_callback(callbacks, has_callback,
                                                 tell + n, file_size)
               /\ u_pc' = "while"
               /\ UNCHANGED result
          ELSE /\ UNCHANGED << remote_sessions, cursor, callbacks >>
               /\ upload_chunked_except
  /\ UNCHANGED << has_callback, disk_size, file_changed, file_size, attempt, attempts_made,
                  remote_files >>

\* lines 158-164: a chunk that is not the last one is appended
upload_chunked_append ==
  /\ UNCHANGED app_vars
  /\ u_pc = "while"
  /\ LoopContinues(tell, file_size)
  /\ Len(call_log) < MaxCalls
  /\ LET n == ReadChunk(tell, disk_size) IN
     /\ MoreToCome(tell + n, file_size)
     /\ \E res \in CallResults :
          \* the remote refuses an append at another offset than its own
          /\ (res = "ok") => (cursor.offset = Acked(cursor))
          /\ tell' = tell + n
          /\ reads' = reads + 1
          /\ call_log' = Append(call_log,
                LogEntry("session_append", n, tell + n, cursor, Acked(cursor), res))
          /\ IF res = "ok"
             THEN /\ remote_sessions' =
                       [remote_sessions EXCEPT ![cursor.session_id] = @ + n]
                  /\ cursor' = AdvanceCursor(cursor, tell + n)
                  /\ callbacks' = progress_callback(callbacks, has_callback,
                                                    tell + n, file_size)
                  /\ UNCHANGED << u_pc, result >>
             ELSE /\ UNCHANGED << remote_sessions, cursor, callbacks >>
                  /\ upload_chunked_except
  /\ UNCHANGED << has_callback, disk_size, file_changed, file_size, attempt, attempts_made,
                  remote_files >>

\* lines 158-171: the chunk that brings the read pointer to file_size is
\* sent with session finish
upload_chunked_finish ==
  /\ UNCHANGED app_vars
  /\ u_pc = "while"
  /\ LoopContinues(tell, file_size)
  /\ LET n == ReadChunk(tell, disk_size) IN
     /\ ~ MoreToCome(tell + n, file_size)
     /\ \E res \in CallResults :
          /\ (res = "ok") => (cursor.offset = Acked(cursor))
          /\ tell' = tell + n
          /\ reads' = reads + 1
          /\ call_log' = Append(call_log,
                LogEntry("session_finish", n, tell + n, cursor, Acked(cursor), res))
          /\ IF res = "ok"
             THEN /\ remote_files' = Append(remote_files, Acked(cursor) + n)
                  /\ remote_sessions' =
                       [remote_sessions EXCEPT ![cursor.session_id] = @ + n]
                  /\ callbacks' = progress_callback(callbacks, has_callback,
                                                    tell + n, file_size)
                  /\ UNCHANGED << u_pc, result >>
             ELSE /\ UNCHANGED << remote_sessions, remote_files, callbacks >>
                  /\ upload_chunked_except
  /\ UNCHANGED << has_callback, disk_size, file_changed, file_size, attempt, attempts_made,
                  cursor >>

\* lines 158, 176-177 and 123: the loop ends and True is returned
upload_chunked_return ==
  /\ UNCHANGED app_vars
  /\ u_pc = "while"
  /\ ~ LoopContinues(tell, file_size)
  /\ result' = "true"
  /\ u_pc' = "returned"
  /\ UNCHANGED << has_callback, callbacks, disk_size, file_changed, file_size, attempt, attempts_made,
                  tell, reads, cursor, call_log, remote_sessions, remote_files >>

\* environment: the local file is rewritten with another length while
\* upload_file runs (between os.path.getsize and a later read)
FileChanges ==
  /\ UNCHANGED app_vars
  /\ u_pc \in {"for", "single", "start", "while"}
  /\ ~ file_changed
  /\ \E s \in FileSizes \ {disk_size} : disk_size' = s
  /\ file_changed' = TRUE
  /\ UNCHANGED << has_callback, callbacks, file_size, u_pc, attempt,
                  attempts_made, tell, reads, cursor,
                  result, call_log, remote_sessions, remote_files >>

\* ------------------------------------------------------------------------
\* The application (src/src/main.py)
\* ------------------------------------------------------------------------
\* the media files on the local disk, and one file the selection rejects
Files == 1..MaxFiles
JunkFile == 0

\* line 787: os.path.basename(file_path); file -n lies in a subfolder of the
\* selected folder and has the name of file n
Basename(f) == IF f < 0 THEN 0 - f ELSE f

\* four more files of a folder: a photo, a text file, a short clip and a
\* photo whose extension is written in capitals
PhotoFile == 101
TextFile == 102
ClipFile == 103
ShoutFile == 104

\* size of each file: odd files are small, even files need a session;
\* the rejected file has exactly the minimum size
FileBytes(f) ==
  IF f = JunkFile THEN 100 * 1024
  ELSE IF f \in {PhotoFile, TextFile} THEN 500 * 1024
  ELSE IF f = ClipFile THEN 50 * 1024
  ELSE IF f = ShoutFile THEN 200 * 1024
  ELSE IF Basename(f) % 2 = 0 THEN CHUNK_SIZE + Basename(f)
  ELSE 100 * 1024 + Basename(f)

\* config.py 51-98
PHOTO_EXTENSIONS ==
  { ".cr2", ".cr3", ".nef", ".nrw", ".arw", ".srf", ".sr2", ".dng", ".orf",
    ".rw2", ".pef", ".ptx", ".raf", ".jpg", ".jpeg", ".png", ".tif", ".tiff",
    ".webp" }
VIDEO_EXTENSIONS ==
  { ".mp4", ".mov", ".avi", ".mkv", ".mts", ".m2ts", ".m4v", ".wmv", ".flv",
    ".webm", ".3gp", ".mpg", ".mpeg" }
ALLOWED_EXTENSIONS == PHOTO_EXTENSIONS \cup VIDEO_EXTENSIONS

\* Path(filename).suffix of each file: photos are odd, videos are even
Suffix(f) ==
  IF f = TextFile THEN ".txt"
  ELSE IF f = ShoutFile THEN ".JPG"
  ELSE IF f = PhotoFile THEN ".jpg"
  ELSE IF f = ClipFile THEN ".mp4"
  ELSE IF Basename(f) % 2 = 0 THEN ".mp4"
  ELSE ".jpg"

\* str.lower() on the suffixes that occur
Lower(s) ==
  IF s = ".JPG" THEN ".jpg"
  ELSE IF s = ".MP4" THEN ".mp4"
  ELSE IF s = ".TXT" THEN ".txt"
  ELSE s

IsUploadableInclusive(f) ==
  /\ Lower(Suffix(f)) \in ALLOWED_EXTENSIONS
  /\ FileBytes(f) >= 100 * 1024

\* main.py 639-647 and utils.py 83-90: `file_ext in ALLOWED_EXTENSIONS` and
\* `file_size > 100 * 1024`
IsUploadable(f) ==
  /\ Lower(Suffix(f)) \in ALLOWED_EXTENSIONS
  /\ FileBytes(f) > 100 * 1024

RECURSIVE SumBytes(_)
SumBytes(S) ==
  IF S = {} THEN 0
  ELSE LET f == CHOOSE x \in S : TRUE IN FileBytes(f) + SumBytes(S \ {f})

\* the files of S as a list, in the order of the dialog
RECURSIVE ListOf(_)
ListOf(S) ==
  IF S = {} THEN << >>
  ELSE LET f == CHOOSE x \in S : \A y \in S : x <= y
       IN << f >> \o ListOf(S \ {f})

Range(q) == { q[i] : i \in 1..Len(q) }

\* utils.py 62-96: the files of the folder that pass both tests, and the sum
\* of their sizes
scan_folder(found) ==
  LET accepted == { f \in found : IsUploadable(f) }
  IN [ files |-> ListOf(accepted), total_size |-> SumBytes(accepted) ]

\* line 824: int((completed_count / len(self.files_to_upload)) * 100);
\* the float expression equals the integer floor for every total up to 12
\* and every count up to twice the total, which covers the batches modelled
ProgressPercent(completed, total) == (completed * 100) \div total

ThresholdCrossedAnyIncrease(percent, last) == percent > last

\* line 825
ThresholdCrossed(percent, last) == percent - last >= PROGRESS_UPDATE_THRESHOLD

\* upload_file for one task of a batch, by the outcome of each attempt
\* (dropbox_uploader.py 104-139 with 141-181)
RECURSIVE upload_file(_, _, _)
upload_file(size, outcomes, a) ==
  IF a >= MAX_RETRIES THEN FALSE
  ELSE IF ~ IsSmallFile(size) THEN outcomes[a + 1] = "ok"
  ELSE IF outcomes[a + 1] = "ok" THEN TRUE
  ELSE IF outcomes[a + 1] = "exception" THEN FALSE
  ELSE IF IsNotFound(outcomes[a + 1]) THEN FALSE
  ELSE IF LastAttempt(a) THEN FALSE
  ELSE upload_file(size, outcomes, a + 1)

\* lines 874-884: _upload_single_file; os.path.getsize of a missing file
\* raises out of upload_file and is caught here
upload_single_file(f, present, outcomes) ==
  IF ~ present THEN FALSE ELSE upload_file(FileBytes(f), outcomes, 0)

\* lines 809-816: the counters after one result is recorded
RecordResult(success, up, failed, bytes, size) ==
  IF success
  THEN [up |-> up + 1, failed |-> failed, bytes |-> bytes + size]
  ELSE [up |-> up, failed |-> failed + 1, bytes |-> bytes]

\* the progress labels are empty
NothingShown == [ completed |-> 0, total_files |-> 0, uploaded |-> 0, failed |-> 0 ]

\* self.validated_site_info = None
NoSiteInfo ==
  [ success |-> FALSE, file_count |-> 0, site_id |-> "", market |-> "",
    content_type |-> "" ]

\* the markets of the configuration, the texts the user types into the site
\* ID entry, and the values of the content type radio buttons (lines 429-443)
Markets == {"Bay Area", "Atlanta"}
SiteIdTexts == {"", "5", "507", "612"}
ContentTypes == {"daytime", "twilight", "manual", "video"}

\* len(site_id) for the texts of SiteIdTexts
SiteIdLen(s) == IF s = "" THEN 0 ELSE IF s = "5" THEN 1 ELSE 3

\* utils.py 111-117
validate_site_id(s) ==
  IF s = "" THEN FALSE
  ELSE IF SiteIdLen(s) < 2 \/ SiteIdLen(s) > 20 THEN FALSE
  ELSE TRUE

\* lines 529-538: _update_validate_button_state
update_validate_button_state(market, site_id, folder) ==
  IF market # "" /\ site_id # "" /\ folder # "None"
  THEN "normal" ELSE "disabled"

\* no validation thread was started yet
NoArgs == [ market |-> "", site_id |-> "" ]

\* what the webhook does with a request_config or validate_site request:
\* answer with a JSON object whose success is true, one whose success is
\* false with error and message, a JSON object without these fields, JSON
\* that is no object, a body that is no JSON, an HTTP error status; or the
\* connection fails, or no answer comes within TIMEOUT
WebhookResponses ==
  { "success", "failure", "fields_missing", "not_object", "not_json",
    "http_error", "connection_error", "timeout" }

\* webhook_client.py 54-63 and 132-141: the statement of the try block that
\* raises for each response, or "none"
RaisedAt(response) ==
  IF response \in {"timeout", "connection_error"} THEN "post"
  ELSE IF response = "http_error" THEN "raise_for_status"
  ELSE IF response = "not_json" THEN "json"
  ELSE IF response = "not_object" THEN "get"
  ELSE "none"

\* the dict of the three except clauses (72-91 and 149-168)
StructuredFailure ==
  [ raised |-> FALSE, success |-> "false", error |-> TRUE, message |-> TRUE ]

\* response.json() for an answer that is a JSON object: the value under
\* 'success' and whether the keys 'error' and 'message' are present
JsonObject(response) ==
  IF response = "success"
  THEN [ raised |-> FALSE, success |-> "true", error |-> FALSE, message |-> TRUE ]
  ELSE IF response = "failure"
  THEN [ raised |-> FALSE, success |-> "false", error |-> TRUE, message |-> TRUE ]
  ELSE [ raised |-> FALSE, success |-> "absent", error |-> FALSE, message |-> FALSE ]

\* webhook_client.py 32-91: every exception of the try block is caught and
\* becomes the structured failure; a JSON object is returned as it came
webhook_request_config(response) ==
  IF RaisedAt(response) # "none" THEN StructuredFailure
  ELSE JsonObject(response)

\* webhook_client.py 93-168, of the same shape
webhook_validate_site(response) ==
  IF RaisedAt(response) # "none" THEN StructuredFailure
  ELSE JsonObject(response)

\* `if result.get('success')`
Succeeded(returned) == returned.success = "true"

InitFields ==
  /\ selected_folder = "None"
  /\ files_to_upload = << >>
  /\ total_size_bytes = 0
  /\ validated_site_info = NoSiteInfo
  /\ upload_in_progress = FALSE
  /\ files_uploaded = 0
  /\ files_failed = 0
  /\ last_progress_update = 0
  /\ upload_btn = "disabled"
  /\ validate_btn = "disabled"
  /\ select_folder_btn = "normal"
  /\ validating = FALSE
  /\ ui_queue = << >>
  /\ progress_shown = NothingShown
  /\ t_pc = "none"
  /\ tasks = << >>
  /\ futures = << >>
  /\ consumed = {}
  /\ bytes_uploaded = 0
  /\ completed_count = 0
  /\ upload_lock = "free"
  /\ folder_results = << >>
  /\ remote_store = {}
  /\ remote_folder = "absent"
  /\ fallible = {1}
  /\ truncated = {}
  /\ empty_appends = 0
  /\ notifications = << >>
  /\ delivery_failed = FALSE
  /\ last_validation = "none"
  /\ batch_no = 0
  /\ clicks = 0

\* the form after __init__ (lines 96-97 and 458)
InitConstructed ==
  /\ selected_market = ""
  /\ content_type = "daytime"
  /\ site_id_var = ""
  /\ validation_args = NoArgs
  /\ webhook_results = << >>

\* the form after the configuration has arrived, which sets the first
\* market (lines 289-292), and the user has typed a site ID
InitInputs ==
  /\ selected_market = "Bay Area"
  /\ content_type = "daytime"
  /\ site_id_var = "507"
  /\ validation_args = NoArgs
  /\ webhook_results = << >>

\* the application after __init__ and _handle_config_response, with the
\* media files on the disk and a site ID typed
InitApp ==
  /\ InitFields
  /\ InitInputs
  /\ on_disk = Files

\* what a file dialog or a folder scan can return: the first n media files
\* of the disk, with or without a file the size filter rejects
Selections ==
  { ((1..n) \cap on_disk) \cup junk : n \in 0..MaxFiles, junk \in {{}, {JunkFile}} }

\* lines 614-682: the Select Files button, which no handler ever disables
select_files ==
  /\ UNCHANGED upload_vars
  /\ UNCHANGED << upload_lock, folder_results, remote_store, remote_folder >>
  /\ UNCHANGED input_vars
  /\ UNCHANGED << fallible, empty_appends, truncated, delivery_failed, last_validation >>
  /\ clicks < MaxClicks
  /\ clicks' = clicks + 1
  /\ \E chosen \in Selections :
       /\ chosen # {}
       /\ LET accepted == { f \in chosen : IsUploadable(f) } IN
          /\ files_to_upload' = ListOf(accepted)
          /\ total_size_bytes' = SumBytes(accepted)
          /\ IF accepted = {}
             THEN UNCHANGED << selected_folder, validate_btn >>
             ELSE /\ selected_folder' = "Multiple Files"
                  /\ validate_btn' = IF selected_market # "" THEN "normal"
                                     ELSE validate_btn
  /\ UNCHANGED << validated_site_info, upload_in_progress, files_uploaded,
                  files_failed, last_progress_update, upload_btn,
                  select_folder_btn, validating, ui_queue, progress_shown,
                  t_pc, tasks, futures, consumed, bytes_uploaded,
                  completed_count, on_disk, notifications, batch_no >>

\* lines 684-709: the Select Folder button, for a folder that holds the
\* files found
select_folder_of(found) ==
  /\ UNCHANGED upload_vars
  /\ UNCHANGED << upload_lock, folder_results, remote_store, remote_folder >>
  /\ UNCHANGED input_vars
  /\ UNCHANGED << fallible, empty_appends, truncated, delivery_failed, last_validation >>
  /\ clicks < MaxClicks
  /\ clicks' = clicks + 1
  /\ select_folder_btn = "normal"
  /\ selected_folder' = "folder"
  /\ files_to_upload' = scan_folder(found).files
  /\ total_size_bytes' = scan_folder(found).total_size
  /\ IF scan_folder(found).files = << >>
     THEN UNCHANGED validate_btn
     ELSE validate_btn' = update_validate_button_state(selected_market,
                                                       site_id_var, "folder")
  /\ UNCHANGED << validated_site_info, upload_in_progress, files_uploaded,
                  files_failed, last_progress_update, upload_btn,
                  select_folder_btn, validating, ui_queue, progress_shown,
                  t_pc, tasks, futures, consumed, bytes_uploaded,
                  completed_count, on_disk, notifications, batch_no >>

select_folder == \E found \in Selections : select_folder_of(found)

\* lines 539-566: the Validate button starts a validation thread
validate_site ==
  /\ UNCHANGED upload_vars
  /\ UNCHANGED << upload_lock, folder_results, remote_store, remote_folder >>
  /\ UNCHANGED << selected_market, content_type, site_id_var, webhook_results >>
  /\ UNCHANGED << fallible, empty_appends, truncated, delivery_failed, last_validation >>
  /\ clicks < MaxClicks
  /\ clicks' = clicks + 1
  /\ validate_btn = "normal"
  /\ selected_market # ""
  /\ validate_site_id(site_id_var)
  /\ selected_folder # "None"
  /\ validation_args' = [ market |-> selected_market, site_id |-> site_id_var ]
  /\ ~ validating
  /\ validate_btn' = "disabled"
  /\ validating' = TRUE
  /\ UNCHANGED << selected_folder, files_to_upload, total_size_bytes,
                  validated_site_info, upload_in_progress, files_uploaded,
                  files_failed, last_progress_update, upload_btn,
                  select_folder_btn, ui_queue, progress_shown, t_pc, tasks,
                  futures, consumed, bytes_uploaded, completed_count, on_disk,
                  notifications, batch_no >>

\* lines 591-612: _handle_validation_result for the result that
\* validate_site returned to _validate_site_thread; the thread read the
\* file count and the content type at lines 571-577
handle_validation_result_of(returned) ==
  /\ UNCHANGED << upload_vars, clicks >>
  /\ UNCHANGED << upload_lock, folder_results, remote_store, remote_folder >>
  /\ UNCHANGED << fallible, empty_appends, truncated, delivery_failed >>
  /\ validating
  /\ validating' = FALSE
  /\ validate_btn' = "normal"
  /\ IF Succeeded(returned)
     THEN /\ validated_site_info' =
               [ success |-> TRUE, file_count |-> Len(files_to_upload),
                 site_id |-> validation_args.site_id,
                 market |-> validation_args.market,
                 content_type |-> content_type ]
          /\ upload_btn' = "normal"
          /\ last_validation' = "succeeded"
     ELSE /\ UNCHANGED << validated_site_info, upload_btn >>
          /\ last_validation' = "failed"
  /\ UNCHANGED << selected_folder, files_to_upload, total_size_bytes,
                  upload_in_progress, files_uploaded, files_failed,
                  last_progress_update, select_folder_btn, ui_queue,
                  progress_shown, t_pc, tasks, futures, consumed,
                  bytes_uploaded, completed_count, on_disk, notifications,
                  batch_no >>

\* lines 568-612: the validation thread and _handle_validation_result
handle_validation_result ==
  /\ UNCHANGED input_vars
  /\ \E response \in WebhookResponses :
       handle_validation_result_of(webhook_validate_site(response))

StartCountersStale == [up |-> 1, failed |-> 0]

\* lines 744-745: the counters a new batch starts with
StartCounters == [up |-> 0, failed |-> 0]

UploadRunningIgnored(in_progress) == FALSE

\* lines 718-719: _start_upload returns when a batch is in progress
UploadRunning(in_progress) == in_progress

\* lines 711-752: the Start Upload button, confirmed by the user; the folder
\* of the validated site holds none of the files of the batch yet. At most
\* limit batches are started in one run.
start_upload_within(limit) ==
  /\ UNCHANGED upload_vars
  /\ UNCHANGED << upload_lock, folder_results, remote_folder >>
  /\ UNCHANGED input_vars
  /\ remote_store' = {}
  /\ UNCHANGED << fallible, empty_appends, truncated, last_validation >>
  /\ clicks < MaxClicks
  /\ clicks' = clicks + 1
  /\ upload_btn = "normal"
  /\ validated_site_info.success
  /\ ~ UploadRunning(upload_in_progress)
  /\ batch_no < limit
  /\ upload_btn' = "disabled"
  /\ select_folder_btn' = "disabled"
  /\ validate_btn' = "disabled"
  /\ upload_in_progress' = TRUE
  /\ files_uploaded' = StartCounters.up
  /\ files_failed' = StartCounters.failed
  /\ last_progress_update' = 0
  /\ t_pc' = "begin"
  /\ batch_no' = batch_no + 1
  /\ notifications' = << >>
  /\ delivery_failed' = FALSE
  /\ progress_shown' = NothingShown
  /\ tasks' = << >>
  /\ futures' = << >>
  /\ consumed' = {}
  /\ UNCHANGED << selected_folder, files_to_upload, total_size_bytes,
                  validated_site_info, validating, ui_queue, bytes_uploaded,
                  completed_count, on_disk >>

start_upload == start_upload_within(MaxBatches)

\* lines 711-719: the Start Upload button is pressed while no site is
\* validated or while a batch is in progress, and _start_upload returns
\* without starting a thread
start_upload_refused ==
  /\ UNCHANGED upload_vars
  /\ UNCHANGED << upload_lock, folder_results, remote_store, remote_folder >>
  /\ UNCHANGED input_vars
  /\ UNCHANGED << fallible, empty_appends, truncated, delivery_failed, last_validation >>
  /\ clicks < MaxClicks
  /\ clicks' = clicks + 1
  /\ upload_btn = "normal"
  /\ \/ ~ validated_site_info.success
     \/ UploadRunning(upload_in_progress)
  /\ UNCHANGED << selected_folder, files_to_upload, total_size_bytes,
                  validated_site_info, upload_in_progress, files_uploaded,
                  files_failed, last_progress_update, upload_btn, validate_btn,
                  select_folder_btn, validating, ui_queue, progress_shown,
                  t_pc, tasks, futures, consumed, bytes_uploaded,
                  completed_count, on_disk, notifications, batch_no >>

\* what the webhook does with one notification: acknowledge it, answer
\* without success, answer with an HTTP error, or not answer in time
NotifyResponses == {"success", "flagged", "http_error", "timeout"}

\* the call as it would be without its try/except
SendNotificationPropagates(response) ==
  [ delivered |-> response = "success",
    raised |-> response \in {"http_error", "timeout"} ]

\* webhook_client.py 276-297, and 240-254 for upload_complete: the post and
\* the reading of the answer are inside try/except, so the call returns
\* whether the notification was acknowledged and never raises
send_notification(response) ==
  [ delivered |-> response = "success", raised |-> FALSE ]

\* the ways one notification call can end
NotificationCalls == { send_notification(r) : r \in NotifyResponses }

ThreadExceptSwallows(queue) == queue

\* lines 870-872: the handler of the try block that spans _upload_thread
\* posts _upload_failed to the UI thread and the thread returns
thread_except(queue) == Append(queue, [ fn |-> "_upload_failed" ])

NotifyUploadStartedSkipped(log, file_count) == log

\* lines 766-774 and webhook_client.py 170-189: the upload_started
\* notification of the batch joins the notifications sent so far
notify_upload_started(log, file_count) ==
  Append(log, [ action |-> "upload_started", file_count |-> file_count ])

\* lines 756-774 and 870-872: the storage client is built, the job is read
\* from validated_site_info (which raises when it is None) and
\* upload_started is sent; an exception goes to the top-level handler
upload_thread_begin ==
  /\ UNCHANGED << upload_lock, folder_results, remote_store, remote_folder >>
  /\ UNCHANGED input_vars
  /\ UNCHANGED << fallible, empty_appends, truncated, last_validation >>
  /\ UNCHANGED << upload_vars, clicks >>
  /\ t_pc = "begin"
  /\ \E client_ok \in BOOLEAN :
       IF client_ok /\ validated_site_info.success
       THEN \E sent \in NotificationCalls :
              /\ notifications' = notify_upload_started(notifications,
                                                         Len(files_to_upload))
              /\ delivery_failed' = (delivery_failed \/ ~ sent.delivered)
              /\ IF sent.raised
                 THEN /\ ui_queue' = thread_except(ui_queue)
                      /\ t_pc' = "exit"
                 ELSE /\ t_pc' = "pool"
                      /\ UNCHANGED ui_queue
       ELSE /\ ui_queue' = thread_except(ui_queue)
            /\ t_pc' = "exit"
            /\ UNCHANGED << notifications, delivery_failed >>
  /\ UNCHANGED << selected_folder, files_to_upload, total_size_bytes,
                  validated_site_info, upload_in_progress, files_uploaded,
                  files_failed, last_progress_update, upload_btn, validate_btn,
                  select_folder_btn, validating, progress_shown, tasks,
                  futures, consumed, bytes_uploaded, completed_count, on_disk,
                  batch_no >>

\* lines 776-786: local counters, the pool, and the list the loop runs over
upload_thread_pool ==
  /\ UNCHANGED << upload_vars, clicks >>
  /\ UNCHANGED << upload_lock, folder_results, remote_store, remote_folder >>
  /\ UNCHANGED input_vars
  /\ UNCHANGED << fallible, empty_appends, truncated, delivery_failed, last_validation >>
  /\ t_pc = "pool"
  /\ bytes_uploaded' = 0
  /\ completed_count' = 0
  /\ tasks' = files_to_upload
  /\ futures' = [ i \in 1..Len(files_to_upload) |-> "unsubmitted" ]
  /\ consumed' = {}
  /\ t_pc' = "submit"
  /\ UNCHANGED << selected_folder, files_to_upload, total_size_bytes,
                  validated_site_info, upload_in_progress, files_uploaded,
                  files_failed, last_progress_update, upload_btn, validate_btn,
                  select_folder_btn, validating, ui_queue, progress_shown,
                  on_disk, notifications, batch_no >>

\* lines 786-797: the next file is submitted; after the last one the thread
\* waits for completions
upload_thread_submit ==
  /\ UNCHANGED << upload_vars, clicks >>
  /\ UNCHANGED << upload_lock, folder_results, remote_store, remote_folder >>
  /\ UNCHANGED input_vars
  /\ UNCHANGED << fallible, empty_appends, truncated, delivery_failed, last_validation >>
  /\ t_pc = "submit"
  /\ IF \E i \in DOMAIN futures : futures[i] = "unsubmitted"
     THEN LET i == CHOOSE j \in DOMAIN futures :
                     /\ futures[j] = "unsubmitted"
                     /\ \A k \in DOMAIN futures :
                          futures[k] = "unsubmitted" => j <= k
          IN /\ futures' = [futures EXCEPT ![i] = "queued"]
             /\ UNCHANGED t_pc
     ELSE /\ t_pc' = "drain"
          /\ UNCHANGED futures
  /\ UNCHANGED << selected_folder, files_to_upload, total_size_bytes,
                  validated_site_info, upload_in_progress, files_uploaded,
                  files_failed, last_progress_update, upload_btn, validate_btn,
                  select_folder_btn, validating, ui_queue, progress_shown,
                  tasks, consumed, bytes_uploaded, completed_count, on_disk,
                  notifications, batch_no >>

Running == { i \in DOMAIN futures : futures[i] = "running" }

\* line 782: a free worker of the pool takes the oldest queued task
worker_start(i) ==
  /\ UNCHANGED << upload_vars, clicks >>
  /\ UNCHANGED << upload_lock, folder_results, remote_store, remote_folder >>
  /\ UNCHANGED input_vars
  /\ UNCHANGED << fallible, empty_appends, truncated, delivery_failed, last_validation >>
  /\ futures[i] = "queued"
  /\ \A k \in DOMAIN futures : futures[k] = "queued" => i <= k
  /\ Cardinality(Running) < PARALLEL_UPLOADS
  /\ futures' = [futures EXCEPT ![i] = "running"]
  /\ UNCHANGED << selected_folder, files_to_upload, total_size_bytes,
                  validated_site_info, upload_in_progress, files_uploaded,
                  files_failed, last_progress_update, upload_btn, validate_btn,
                  select_folder_btn, validating, ui_queue, progress_shown,
                  t_pc, tasks, consumed, bytes_uploaded, completed_count,
                  on_disk, notifications, batch_no >>

\* what the remote calls made for file f can do
Outcomes(f) == IF f \in fallible THEN CallResults ELSE {"ok"}

\* dropbox_uploader.py 158-164: when the file has become shorter than the
\* size measured at line 102, the reads stop short of file_size and the loop
\* appends until a remote call raises
LoopsForever(f) == f \in truncated /\ ~ IsSmallFile(FileBytes(f))

\* the values _upload_single_file can return for file f
Returns(f) ==
  IF LoopsForever(f)
  THEN IF f \in fallible THEN {FALSE} ELSE {}
  ELSE { upload_single_file(f, f \in on_disk, outcomes) :
           outcomes \in [1..MAX_RETRIES -> Outcomes(f)] }

DropboxPathAlone(f) == 0

\* line 789: f"{dropbox_path}/{file_name}", for the one dropbox_path of the
\* batch
full_dropbox_path(f) == Basename(f)

\* the remote store at the commit of a file (files_upload or
\* files_upload_session_finish): with mode add a path that exists is a
\* conflict, which the call raises as an ApiError; with mode overwrite the
\* file at the path is replaced
remote_write(mode, store, path, f) ==
  LET taken == \E e \in store : e[1] = path IN
  IF mode = "add"
  THEN [ accepted |-> ~ taken,
         store |-> IF taken THEN store ELSE store \cup { << path, f >> } ]
  ELSE [ accepted |-> TRUE,
         store |-> { e \in store : e[1] # path } \cup { << path, f >> } ]

\* lines 874-884: the worker runs _upload_single_file to its return; a
\* conflict at the destination makes every attempt raise ApiError, so
\* upload_file returns False
worker_finish(i) ==
  /\ UNCHANGED << upload_vars, clicks >>
  /\ UNCHANGED << upload_lock, folder_results, remote_folder >>
  /\ UNCHANGED input_vars
  /\ UNCHANGED << fallible, empty_appends, delivery_failed, last_validation >>
  /\ futures[i] = "running"
  /\ \E returned \in Returns(tasks[i]) :
       LET written == remote_write(WriteModeUsed, remote_store,
                                   full_dropbox_path(tasks[i]), tasks[i])
       IN IF returned /\ written.accepted
          THEN /\ futures' = [futures EXCEPT ![i] = "true"]
               /\ remote_store' = written.store
          ELSE /\ futures' = [futures EXCEPT ![i] = "false"]
               /\ UNCHANGED remote_store
  /\ truncated' = truncated \ {tasks[i]}
  /\ UNCHANGED << selected_folder, files_to_upload, total_size_bytes,
                  validated_site_info, upload_in_progress, files_uploaded,
                  files_failed, last_progress_update, upload_btn, validate_btn,
                  select_folder_btn, validating, ui_queue, progress_shown,
                  t_pc, tasks, consumed, bytes_uploaded, completed_count,
                  on_disk, notifications, batch_no >>

\* lines 800-841: one turn of the as_completed loop
upload_thread_completion(i) ==
  /\ UNCHANGED << upload_vars, clicks >>
  /\ UNCHANGED << upload_lock, folder_results, remote_store, remote_folder >>
  /\ UNCHANGED input_vars
  /\ UNCHANGED << fallible, empty_appends, truncated, last_validation >>
  /\ t_pc = "drain"
  /\ i \notin consumed
  /\ futures[i] \in {"true", "false"}
  /\ consumed' = consumed \cup {i}
  /\ LET success == futures[i] = "true"
         total == Len(files_to_upload)
         done == completed_count + 1
         rec == RecordResult(success, files_uploaded, files_failed,
                             bytes_uploaded, FileBytes(tasks[i]))
         shown == [ fn |-> "_update_progress_parallel", completed |-> done,
                    total_files |-> total, bytes_uploaded |-> rec.bytes ]
     IN
     IF tasks[i] \notin on_disk
     THEN \* line 807 raises: lines 837-841
          /\ files_failed' = files_failed + 1
          /\ completed_count' = done + 1
          /\ UNCHANGED << files_uploaded, bytes_uploaded, ui_queue,
                          notifications, delivery_failed,
                          last_progress_update >>
     ELSE IF total = 0
     THEN \* line 824 raises after the result was recorded: lines 837-841
          /\ files_uploaded' = rec.up
          /\ bytes_uploaded' = rec.bytes
          /\ files_failed' = rec.failed + 1
          /\ completed_count' = done + 1
          /\ ui_queue' = Append(ui_queue, shown)
          /\ UNCHANGED << notifications, delivery_failed,
                          last_progress_update >>
     ELSE IF ThresholdCrossed(ProgressPercent(done, total),
                              last_progress_update)
     THEN \* lines 826-835; a raising call would end in lines 837-841
          \E sent \in NotificationCalls :
            /\ files_uploaded' = rec.up
            /\ bytes_uploaded' = rec.bytes
            /\ ui_queue' = Append(ui_queue, shown)
            /\ notifications' = Append(notifications,
                 [ action |-> "upload_progress",
                   progress_percent |-> ProgressPercent(done, total),
                   files_uploaded |-> rec.up,
                   files_remaining |-> total - done ])
            /\ delivery_failed' = (delivery_failed \/ ~ sent.delivered)
            /\ IF sent.raised
               THEN /\ files_failed' = rec.failed + 1
                    /\ completed_count' = done + 1
                    /\ UNCHANGED last_progress_update
               ELSE /\ files_failed' = rec.failed
                    /\ completed_count' = done
                    /\ last_progress_update' = ProgressPercent(done, total)
     ELSE /\ files_uploaded' = rec.up
          /\ bytes_uploaded' = rec.bytes
          /\ files_failed' = rec.failed
          /\ completed_count' = done
          /\ ui_queue' = Append(ui_queue, shown)
          /\ UNCHANGED << notifications, delivery_failed,
                          last_progress_update >>
  /\ UNCHANGED << selected_folder, files_to_upload, total_size_bytes,
                  validated_site_info, upload_in_progress, upload_btn,
                  validate_btn, select_folder_btn, validating, progress_shown,
                  t_pc, tasks, futures, on_disk, batch_no >>

NoFileFailedLenient(failed) == failed <= 1

\* line 846: no file of the batch failed
NoFileFailed(failed) == failed = 0

\* lines 843-868: every future was yielded; the terminal notification. A
\* raising call would end in the top-level handler, lines 870-872
upload_thread_finish ==
  /\ UNCHANGED << upload_vars, clicks >>
  /\ UNCHANGED << upload_lock, folder_results, remote_store, remote_folder >>
  /\ UNCHANGED input_vars
  /\ UNCHANGED << fallible, empty_appends, truncated, last_validation >>
  /\ t_pc = "drain"
  /\ consumed = DOMAIN futures
  /\ t_pc' = "exit"
  /\ \E sent \in NotificationCalls :
       /\ delivery_failed' = (delivery_failed \/ ~ sent.delivered)
       /\ IF NoFileFailed(files_failed)
          THEN /\ notifications' = Append(notifications,
                    [ action |-> "upload_complete",
                      files_uploaded |-> files_uploaded ])
               /\ ui_queue' = Append(ui_queue,
                    [ fn |-> IF sent.raised THEN "_upload_failed"
                             ELSE "_upload_complete_success" ])
          ELSE /\ notifications' = Append(notifications,
                    [ action |-> "upload_failed",
                      files_uploaded |-> files_uploaded,
                      files_failed |-> files_failed ])
               /\ ui_queue' = Append(ui_queue,
                    [ fn |-> IF sent.raised THEN "_upload_failed"
                             ELSE "_upload_complete_partial" ])
  /\ UNCHANGED << selected_folder, files_to_upload, total_size_bytes,
                  validated_site_info, upload_in_progress, files_uploaded,
                  files_failed, last_progress_update, upload_btn, validate_btn,
                  select_folder_btn, validating, progress_shown, tasks,
                  futures, consumed, bytes_uploaded, completed_count, on_disk,
                  batch_no >>

\* lines 886-913: the UI thread runs a posted progress update; a total of
\* zero raises in the callback and nothing is displayed
update_progress_parallel ==
  /\ UNCHANGED << upload_vars, clicks >>
  /\ UNCHANGED << upload_lock, folder_results, remote_store, remote_folder >>
  /\ UNCHANGED input_vars
  /\ UNCHANGED << fallible, empty_appends, truncated, delivery_failed, last_validation >>
  /\ ui_queue # << >>
  /\ Head(ui_queue).fn = "_update_progress_parallel"
  /\ ui_queue' = Tail(ui_queue)
  /\ progress_shown' =
       IF Head(ui_queue).total_files = 0 THEN progress_shown
       ELSE [ completed |-> Head(ui_queue).completed,
              total_files |-> Head(ui_queue).total_files,
              uploaded |-> files_uploaded,
              failed |-> files_failed ]
  /\ UNCHANGED << selected_folder, files_to_upload, total_size_bytes,
                  validated_site_info, upload_in_progress, files_uploaded,
                  files_failed, last_progress_update, upload_btn, validate_btn,
                  select_folder_btn, validating, t_pc, tasks, futures,
                  consumed, bytes_uploaded, completed_count, on_disk,
                  notifications, batch_no >>

\* lines 915-991: _upload_complete_success, _upload_complete_partial and
\* _upload_failed, each ending in _reset_ui
upload_terminal_handler ==
  /\ UNCHANGED << upload_vars, clicks >>
  /\ UNCHANGED << upload_lock, folder_results, remote_store, remote_folder >>
  /\ UNCHANGED << selected_market, content_type, validation_args, webhook_results >>
  /\ site_id_var' = ""
  /\ UNCHANGED << fallible, empty_appends, truncated, delivery_failed, last_validation >>
  /\ ui_queue # << >>
  /\ Head(ui_queue).fn \in {"_upload_complete_success",
                            "_upload_complete_partial", "_upload_failed"}
  /\ ui_queue' = Tail(ui_queue)
  /\ upload_in_progress' = FALSE
  /\ upload_btn' = "disabled"
  /\ select_folder_btn' = "normal"
  /\ validate_btn' = "disabled"
  /\ selected_folder' = "None"
  /\ files_to_upload' = << >>
  /\ validated_site_info' = NoSiteInfo
  /\ UNCHANGED << total_size_bytes, files_uploaded, files_failed,
                  last_progress_update, validating, progress_shown, t_pc,
                  tasks, futures, consumed, bytes_uploaded, completed_count,
                  on_disk, notifications, batch_no >>

\* environment: one file of the batch is deleted or moved away while the
\* batch runs
FileRemoved(f) ==
  /\ UNCHANGED << upload_vars, clicks >>
  /\ UNCHANGED << upload_lock, folder_results, remote_store, remote_folder >>
  /\ UNCHANGED input_vars
  /\ UNCHANGED << fallible, empty_appends, truncated, delivery_failed, last_validation >>
  /\ t_pc \in {"submit", "drain"}
  /\ f \in Range(tasks)
  /\ Range(tasks) \subseteq on_disk
  /\ on_disk' = on_disk \ {f}
  /\ UNCHANGED << selected_folder, files_to_upload, total_size_bytes,
                  validated_site_info, upload_in_progress, files_uploaded,
                  files_failed, last_progress_update, upload_btn, validate_btn,
                  select_folder_btn, validating, ui_queue, progress_shown,
                  t_pc, tasks, futures, consumed, bytes_uploaded,
                  completed_count, notifications, batch_no >>

\* environment: a file larger than a chunk is rewritten shorter while a
\* worker uploads it (after os.path.getsize, dropbox_uploader.py 102)
FileTruncated(f) ==
  /\ UNCHANGED << upload_vars, clicks >>
  /\ UNCHANGED << upload_lock, folder_results, remote_store, remote_folder >>
  /\ UNCHANGED input_vars
  /\ UNCHANGED << fallible, empty_appends, delivery_failed, last_validation >>
  /\ \E i \in DOMAIN futures : tasks[i] = f /\ futures[i] = "running"
  /\ f \in on_disk
  /\ f \notin truncated
  /\ ~ IsSmallFile(FileBytes(f))
  /\ truncated' = truncated \cup {f}
  /\ UNCHANGED << selected_folder, files_to_upload, total_size_bytes,
                  validated_site_info, upload_in_progress, files_uploaded,
                  files_failed, last_progress_update, upload_btn, validate_btn,
                  select_folder_btn, validating, ui_queue, progress_shown,
                  t_pc, tasks, futures, consumed, bytes_uploaded,
                  completed_count, on_disk, notifications, batch_no >>

\* dropbox_uploader.py 158-164 for a file that became shorter: read returns
\* no bytes, the read pointer stays below file_size, and one more empty
\* chunk is appended to the session
worker_appends(i) ==
  /\ UNCHANGED << upload_vars, clicks >>
  /\ UNCHANGED << upload_lock, folder_results, remote_store, remote_folder >>
  /\ UNCHANGED input_vars
  /\ UNCHANGED << fallible, truncated, delivery_failed, last_validation >>
  /\ futures[i] = "running"
  /\ LoopsForever(tasks[i])
  /\ empty_appends' = (empty_appends + 1) % 2
  /\ UNCHANGED << selected_folder, files_to_upload, total_size_bytes,
                  validated_site_info, upload_in_progress, files_uploaded,
                  files_failed, last_progress_update, upload_btn, validate_btn,
                  select_folder_btn, validating, ui_queue, progress_shown,
                  t_pc, tasks, futures, consumed, bytes_uploaded,
                  completed_count, on_disk, notifications, batch_no >>

\* ------------------------------------------------------------------------
\* Specifications
\* ------------------------------------------------------------------------
Init == InitUpload /\ InitApp

Next ==
  \/ upload_file_getsize
  \/ upload_file_open
  \/ upload_file_single
  \/ upload_chunked_start
  \/ upload_chunked_append
  \/ upload_chunked_finish
  \/ upload_chunked_return
  \/ FileChanges

Spec == Init /\ [][Next]_vars

\* the application, with upload_file as one step of a worker
InitBatch ==
  /\ InitApp
  /\ InitUpload
  /\ disk_size = 0
  /\ has_callback = FALSE

NextBatch ==
  \/ select_files
  \/ select_folder
  \/ validate_site
  \/ handle_validation_result
  \/ start_upload
  \/ upload_thread_begin
  \/ upload_thread_pool
  \/ upload_thread_submit
  \/ \E i \in DOMAIN futures : worker_start(i)
  \/ \E i \in DOMAIN futures : worker_finish(i)
  \/ \E i \in DOMAIN futures : upload_thread_completion(i)
  \/ upload_thread_finish
  \/ update_progress_parallel
  \/ upload_terminal_handler
  \/ \E f \in Files : FileRemoved(f)

SpecBatch == InitBatch /\ [][NextBatch]_vars

\* the application right after _start_upload (lines 711-752) was confirmed
\* for a folder that holds the media files of the set batch: the user has
\* picked the folder, had the site validated and pressed Start Upload
StartedBatch(batch) ==
  /\ selected_folder = "folder"
  /\ files_to_upload = ListOf(batch)
  /\ total_size_bytes = SumBytes(batch)
  /\ selected_market = "Bay Area"
  /\ content_type = "daytime"
  /\ site_id_var = "507"
  /\ validation_args = [ market |-> "Bay Area", site_id |-> "507" ]
  /\ webhook_results = << >>
  /\ validated_site_info =
       [ success |-> TRUE, file_count |-> Cardinality(batch),
         site_id |-> "507", market |-> "Bay Area", content_type |-> "daytime" ]
  /\ upload_in_progress = TRUE
  /\ files_uploaded = StartCounters.up
  /\ files_failed = StartCounters.failed
  /\ last_progress_update = 0
  /\ upload_btn = "disabled"
  /\ validate_btn = "disabled"
  /\ select_folder_btn = "disabled"
  /\ validating = FALSE
  /\ ui_queue = << >>
  /\ progress_shown = NothingShown
  /\ consumed = {}
  /\ bytes_uploaded = 0
  /\ completed_count = 0
  /\ upload_lock = "free"
  /\ folder_results = << >>
  /\ remote_folder = "absent"
  /\ on_disk = batch
  /\ truncated = {}
  /\ empty_appends = 0
  /\ last_validation = "succeeded"
  /\ batch_no = 1

\* a folder of n files: photos and videos, or videos only
Folders(n) == { 1..n, { 2 * k : k \in 1..n } }

\* a batch of up to MaxPoolTasks files at the entry of _upload_thread
InitPool ==
  /\ InitUpload
  /\ disk_size = 0
  /\ has_callback = FALSE
  /\ \E n \in 1..MaxPoolTasks : \E batch \in Folders(n) : StartedBatch(batch)
  /\ fallible = {}
  /\ remote_store = {}
  /\ clicks = 3
  /\ t_pc = "begin"
  /\ tasks = << >>
  /\ futures = << >>
  /\ notifications = << >>
  /\ delivery_failed = FALSE

NextPool ==
  \/ upload_thread_begin
  \/ upload_thread_pool
  \/ upload_thread_submit
  \/ \E i \in DOMAIN futures : worker_start(i)
  \/ \E i \in DOMAIN futures : worker_finish(i)
  \/ \E i \in DOMAIN futures : upload_thread_completion(i)
  \/ upload_thread_finish
  \/ update_progress_parallel
  \/ upload_terminal_handler
  \/ \E f \in 1..(2 * MaxPoolTasks) : FileTruncated(f)
  \/ \E i \in DOMAIN futures : worker_appends(i)

SpecPool == InitPool /\ [][NextPool]_vars

\* the threads of the process are scheduled again and again: _upload_thread,
\* the Tk main loop, and the workers of the pool, which take a queued task
\* whenever one of them is free
SpecPoolFair ==
  /\ SpecPool
  /\ WF_vars(upload_thread_begin)
  /\ WF_vars(upload_thread_pool)
  /\ WF_vars(upload_thread_submit)
  /\ WF_vars(\E i \in DOMAIN futures : upload_thread_completion(i))
  /\ WF_vars(upload_thread_finish)
  /\ WF_vars(update_progress_parallel)
  /\ WF_vars(upload_terminal_handler)
  /\ \A i \in 1..MaxPoolTasks :
       WF_vars(i \in DOMAIN futures /\ worker_start(i))
  /\ \A i \in 1..MaxPoolTasks :
       WF_vars(i \in DOMAIN futures /\ worker_finish(i))
  /\ \A i \in 1..MaxPoolTasks :
       WF_vars(i \in DOMAIN futures /\ worker_appends(i))

\* the remote store after the files of S were uploaded
Committed(S) == { << full_dropbox_path(f), f >> : f \in S }

\* a batch of up to MaxTasks files when _upload_thread enters the
\* as_completed loop (line 800) after the pool has run every task
InitDrain ==
  /\ InitUpload
  /\ disk_size = 0
  /\ has_callback = FALSE
  /\ fallible = {1}
  /\ \E n \in 1..MaxTasks :
       /\ StartedBatch(1..n)
       /\ tasks = ListOf(1..n)
       /\ \E failing \in SUBSET fallible :
            /\ futures = [ i \in 1..n |-> IF i \in failing THEN "false" ELSE "true" ]
            /\ remote_store = Committed((1..n) \ failing)
       /\ notifications =
            << [ action |-> "upload_started", file_count |-> n ] >>
  /\ t_pc = "drain"
  /\ delivery_failed \in BOOLEAN
  /\ clicks = MaxClicks - 1

\* the loop of _upload_thread alone: the finished futures are yielded in the
\* order of their submission, the callbacks posted to the UI thread stay
\* queued, and the user can still press Select Files once
NextDrain ==
  \/ \E i \in DOMAIN futures :
       /\ \A k \in 1..(i - 1) : k \in consumed
       /\ upload_thread_completion(i)
  \/ upload_thread_finish
  \/ select_files
  \/ \E f \in 1..MaxTasks : FileRemoved(f)

SpecDrain == InitDrain /\ [][NextDrain]_vars

\* the folders of the scan: any of the files of ScanUniverse
ScanUniverse ==
  { JunkFile, PhotoFile, TextFile, ClipFile, ShoutFile } \cup Files

\* the application after __init__, for each content of the one folder of the
\* disk
InitScan ==
  /\ InitUpload
  /\ disk_size = 0
  /\ has_callback = FALSE
  /\ InitFields
  /\ InitInputs
  /\ on_disk \in SUBSET ScanUniverse

\* the user picks the folder again and again
NextScan == select_folder_of(on_disk)

SpecScan == InitScan /\ [][NextScan]_vars

\* a folder scanned with its subfolders (os.walk): files 1..MaxFiles and, in
\* a subfolder, files of the same names
NestedFolders ==
  { S \in SUBSET { f \in (0 - MaxFiles)..MaxFiles : f # JunkFile } : S # {} }

\* a batch at the entry of _upload_thread in which two files can have the
\* same basename
InitConflict ==
  /\ InitUpload
  /\ disk_size = 0
  /\ has_callback = FALSE
  /\ \E batch \in NestedFolders : StartedBatch(batch)
  /\ fallible = {1}
  /\ remote_store = {}
  /\ clicks = MaxClicks - 1
  /\ t_pc = "begin"
  /\ tasks = << >>
  /\ futures = << >>
  /\ notifications = << >>
  /\ delivery_failed = FALSE

NextConflict ==
  \/ upload_thread_begin
  \/ upload_thread_pool
  \/ upload_thread_submit
  \/ \E i \in DOMAIN futures : worker_start(i)
  \/ \E i \in DOMAIN futures : worker_finish(i)
  \/ \E i \in DOMAIN futures : upload_thread_completion(i)
  \/ upload_thread_finish
  \/ update_progress_parallel
  \/ upload_terminal_handler

SpecConflict == InitConflict /\ [][NextConflict]_vars

\* ------------------------------------------------------------------------
\* The form: configuration, market, content type and site ID
\* ------------------------------------------------------------------------
\* market_combo.current(0) at line 291
FirstMarket == "Bay Area"

\* lines 267-307: _request_config_thread at startup and
\* _handle_config_response; a failure leaves the market combobox disabled
\* and empty
request_config_thread ==
  /\ UNCHANGED upload_vars
  /\ UNCHANGED << upload_lock, folder_results, remote_store, remote_folder >>
  /\ UNCHANGED << fallible, empty_appends, truncated, delivery_failed, last_validation >>
  /\ UNCHANGED << content_type, site_id_var, validation_args, clicks >>
  /\ webhook_results = << >>
  /\ selected_market = ""
  /\ \E response \in WebhookResponses :
       LET returned == webhook_request_config(response) IN
       /\ webhook_results' = Append(webhook_results,
            [ call |-> "request_config", response |-> response,
              returned |-> returned ])
       /\ selected_market' = IF Succeeded(returned) THEN FirstMarket
                             ELSE selected_market
  /\ UNCHANGED << selected_folder, files_to_upload, total_size_bytes,
                  validated_site_info, upload_in_progress, files_uploaded,
                  files_failed, last_progress_update, upload_btn, validate_btn,
                  select_folder_btn, validating, ui_queue, progress_shown,
                  t_pc, tasks, futures, consumed, bytes_uploaded,
                  completed_count, on_disk, notifications, batch_no >>

\* lines 568-612 with the call of validate_site kept in webhook_results
validate_site_thread ==
  /\ UNCHANGED << selected_market, content_type, site_id_var, validation_args >>
  /\ Len(webhook_results) < MaxWebhookCalls
  /\ \E response \in WebhookResponses :
       LET returned == webhook_validate_site(response) IN
       /\ webhook_results' = Append(webhook_results,
            [ call |-> "validate_site", response |-> response,
              returned |-> returned ])
       /\ handle_validation_result_of(returned)

\* lines 458-459 and 529-538: the user edits the site ID entry, which is
\* disabled while a batch runs (lines 740 and 977)
site_id_changed ==
  /\ UNCHANGED upload_vars
  /\ UNCHANGED << upload_lock, folder_results, remote_store, remote_folder >>
  /\ UNCHANGED << fallible, empty_appends, truncated, delivery_failed, last_validation >>
  /\ UNCHANGED << selected_market, content_type, validation_args, webhook_results >>
  /\ clicks < MaxClicks
  /\ clicks' = clicks + 1
  /\ ~ upload_in_progress
  /\ \E text \in SiteIdTexts \ {site_id_var} :
       /\ site_id_var' = text
       /\ validate_btn' = update_validate_button_state(selected_market, text,
                                                       selected_folder)
  /\ UNCHANGED << selected_folder, files_to_upload, total_size_bytes,
                  validated_site_info, upload_in_progress, files_uploaded,
                  files_failed, last_progress_update, upload_btn,
                  select_folder_btn, validating, ui_queue, progress_shown,
                  t_pc, tasks, futures, consumed, bytes_uploaded,
                  completed_count, on_disk, notifications, batch_no >>

\* lines 503-508: another market is picked in the combobox, which holds the
\* markets once the configuration has arrived and is disabled while a batch
\* runs (lines 741 and 978)
on_market_changed ==
  /\ UNCHANGED upload_vars
  /\ UNCHANGED << upload_lock, folder_results, remote_store, remote_folder >>
  /\ UNCHANGED << fallible, empty_appends, truncated, delivery_failed, last_validation >>
  /\ UNCHANGED << content_type, site_id_var, validation_args, webhook_results >>
  /\ clicks < MaxClicks
  /\ clicks' = clicks + 1
  /\ ~ upload_in_progress
  /\ selected_market # ""
  /\ \E market \in Markets \ {selected_market} :
       /\ selected_market' = market
       /\ validate_btn' = update_validate_button_state(market, site_id_var,
                                                       selected_folder)
  /\ validated_site_info' = NoSiteInfo
  /\ upload_btn' = "disabled"
  /\ UNCHANGED << selected_folder, files_to_upload, total_size_bytes,
                  upload_in_progress, files_uploaded, files_failed,
                  last_progress_update, select_folder_btn, validating,
                  ui_queue, progress_shown, t_pc, tasks, futures, consumed,
                  bytes_uploaded, completed_count, on_disk, notifications,
                  batch_no >>

\* lines 510-527: another content type radio button is set; no handler ever
\* disables the radio buttons
on_content_type_changed ==
  /\ UNCHANGED upload_vars
  /\ UNCHANGED << upload_lock, folder_results, remote_store, remote_folder >>
  /\ UNCHANGED << fallible, empty_appends, truncated, delivery_failed, last_validation >>
  /\ UNCHANGED << selected_market, site_id_var, validation_args, webhook_results >>
  /\ clicks < MaxClicks
  /\ clicks' = clicks + 1
  /\ \E content \in ContentTypes \ {content_type} : content_type' = content
  /\ validated_site_info' = NoSiteInfo
  /\ upload_btn' = "disabled"
  /\ UNCHANGED << selected_folder, files_to_upload, total_size_bytes,
                  upload_in_progress, files_uploaded, files_failed,
                  last_progress_update, validate_btn, select_folder_btn,
                  validating, ui_queue, progress_shown, t_pc, tasks, futures,
                  consumed, bytes_uploaded, completed_count, on_disk,
                  notifications, batch_no >>

\* the application from __init__ on: the configuration is requested, the
\* user types a site ID, selects files and has the site validated
InitWebhook ==
  /\ InitUpload
  /\ disk_size = 0
  /\ has_callback = FALSE
  /\ InitFields
  /\ InitConstructed
  /\ on_disk = Files

NextWebhook ==
  \/ request_config_thread
  \/ site_id_changed
  \/ select_files
  \/ validate_site
  \/ validate_site_thread

SpecWebhook == InitWebhook /\ [][NextWebhook]_vars

\* the form with the configuration loaded: the user selects, edits the
\* inputs, validates and starts the upload
NextInputs ==
  \/ select_files
  \/ select_folder
  \/ site_id_changed
  \/ on_market_changed
  \/ on_content_type_changed
  \/ validate_site
  \/ handle_validation_result
  \/ start_upload
  \/ upload_thread_begin

SpecInputs == InitBatch /\ [][NextInputs]_vars

\* a second batch in one run of the application: the first batch, of one
\* file, has had its task run and _upload_thread enters the as_completed
\* loop (line 800); the user has not pressed anything since
InitRerun ==
  /\ InitUpload
  /\ disk_size = 0
  /\ has_callback = FALSE
  /\ fallible = {1}
  /\ StartedBatch({1})
  /\ tasks = ListOf({1})
  /\ \E failing \in SUBSET fallible :
       /\ futures = [ i \in {1} |-> IF i \in failing THEN "false" ELSE "true" ]
       /\ remote_store = Committed({1} \ failing)
  /\ notifications = << [ action |-> "upload_started", file_count |-> 1 ] >>
  /\ t_pc = "drain"
  /\ delivery_failed = FALSE
  /\ clicks = 0

\* the first batch ends, the user fills the form again and starts the next
\* batch; Start Upload can also be pressed while the first batch runs
NextRerun ==
  \/ \E i \in DOMAIN futures : upload_thread_completion(i)
  \/ upload_thread_finish
  \/ update_progress_parallel
  \/ upload_terminal_handler
  \/ site_id_changed
  \/ select_files
  \/ validate_site
  \/ handle_validation_result
  \/ start_upload_within(MaxBatches + 1)
  \/ start_upload_refused
  \/ upload_thread_begin
  \/ upload_thread_pool
  \/ upload_thread_submit
  \/ \E i \in DOMAIN futures : worker_start(i)
  \/ \E i \in DOMAIN futures : worker_finish(i)

SpecRerun == InitRerun /\ [][NextRerun]_vars

\* ------------------------------------------------------------------------
\* create_folder (src/src/dropbox_uploader.py 183-194)
\* ------------------------------------------------------------------------
\* what files_create_folder_v2 can do when the path is absent, is a folder,
\* or is a file: create the folder, raise an ApiError (a conflict with what
\* lies at the path, or another error), or raise an exception that is not
\* an ApiError (HTTP error, rate limit, transport error)
FolderOutcomes(at_path) ==
  {"api_error", "exception"} \cup
    ( IF at_path = "absent" THEN {"ok"}
      ELSE IF at_path = "folder" THEN {"conflict_folder"}
      ELSE {"conflict_file"} )

\* the words of str(e) for each ApiError
ErrorText(outcome) ==
  IF outcome = "conflict_folder" THEN {"path", "conflict", "folder"}
  ELSE IF outcome = "conflict_file" THEN {"path", "conflict", "file"}
  ELSE IF outcome = "api_error" THEN {"path", "insufficient_space"}
  ELSE {}

\* lines 185-194: the value create_folder returns, or "raised" when the
\* exception leaves the method
create_folder_returns(outcome) ==
  IF outcome = "ok" THEN "true"
  ELSE IF outcome = "exception" THEN "raised"
  ELSE IF "conflict" \in ErrorText(outcome) THEN "true"
  ELSE "false"

\* one call of create_folder for the folder path
create_folder ==
  /\ UNCHANGED upload_vars
  /\ UNCHANGED << upload_lock, remote_store >>
  /\ UNCHANGED input_vars
  /\ UNCHANGED << fallible, empty_appends, truncated, delivery_failed, last_validation >>
  /\ Len(folder_results) < MaxFolderCalls
  /\ \E outcome \in FolderOutcomes(remote_folder) :
       /\ remote_folder' = IF outcome = "ok" THEN "folder" ELSE remote_folder
       /\ folder_results' = Append(folder_results,
            [ before |-> remote_folder, outcome |-> outcome,
              returned |-> create_folder_returns(outcome),
              after |-> remote_folder' ])
  /\ UNCHANGED << selected_folder, files_to_upload, total_size_bytes,
                  validated_site_info, upload_in_progress, files_uploaded,
                  files_failed, last_progress_update, upload_btn, validate_btn,
                  select_folder_btn, validating, ui_queue, progress_shown,
                  t_pc, tasks, futures, consumed, bytes_uploaded,
                  completed_count, on_disk, notifications, batch_no, clicks >>

\* environment: somebody else removes what lies at the path, or puts a
\* folder or a file there
FolderChanges ==
  /\ UNCHANGED upload_vars
  /\ UNCHANGED << upload_lock, folder_results, remote_store >>
  /\ UNCHANGED input_vars
  /\ UNCHANGED << fallible, empty_appends, truncated, delivery_failed, last_validation >>
  /\ \E at_path \in {"absent", "folder", "file"} \ {remote_folder} :
       remote_folder' = at_path
  /\ UNCHANGED << selected_folder, files_to_upload, total_size_bytes,
                  validated_site_info, upload_in_progress, files_uploaded,
                  files_failed, last_progress_update, upload_btn, validate_btn,
                  select_folder_btn, validating, ui_queue, progress_shown,
                  t_pc, tasks, futures, consumed, bytes_uploaded,
                  completed_count, on_disk, notifications, batch_no, clicks >>

InitFolder ==
  /\ InitBatch
  /\ remote_folder \in {"absent", "folder", "file"}

NextFolder ==
  \/ create_folder
  \/ FolderChanges

SpecFolder == InitFolder /\ [][NextFolder]_vars

\* ------------------------------------------------------------------------
\* The as_completed loop and the progress callback of the UI thread, stepped
\* at the granularity of the `with self.upload_lock` blocks
\* ------------------------------------------------------------------------
\* the task whose completion _upload_thread is processing
Current == Cardinality(consumed)

\* lines 800-809, 813 and 837: the next future is yielded, completed_count
\* is incremented and the file is measured
lock_result ==
  /\ UNCHANGED << upload_vars, clicks >>
  /\ UNCHANGED << upload_lock, folder_results, remote_store, remote_folder >>
  /\ UNCHANGED input_vars
  /\ UNCHANGED << fallible, empty_appends, truncated, delivery_failed, last_validation >>
  /\ t_pc = "drain"
  /\ Current < Len(futures)
  /\ futures[Current + 1] \in {"true", "false"}
  /\ consumed' = consumed \cup {Current + 1}
  /\ completed_count' = completed_count + 1
  /\ t_pc' = IF tasks[Current + 1] \notin on_disk THEN "at839"
             ELSE IF futures[Current + 1] = "true" THEN "at810"
             ELSE "at814"
  /\ UNCHANGED << selected_folder, files_to_upload, total_size_bytes,
                  validated_site_info, upload_in_progress, files_uploaded,
                  files_failed, last_progress_update, upload_btn, validate_btn,
                  select_folder_btn, validating, ui_queue, progress_shown,
                  tasks, futures, bytes_uploaded, on_disk, notifications,
                  batch_no >>

\* lines 810, 814 and 839: `with self.upload_lock:` is entered when the lock
\* is free
lock_acquire ==
  /\ UNCHANGED << upload_vars, clicks >>
  /\ UNCHANGED << folder_results, remote_store, remote_folder >>
  /\ UNCHANGED input_vars
  /\ UNCHANGED << fallible, empty_appends, truncated, delivery_failed, last_validation >>
  /\ t_pc \in {"at810", "at814", "at839"}
  /\ upload_lock = "free"
  /\ upload_lock' = "thread"
  /\ t_pc' = IF t_pc = "at810" THEN "in811"
             ELSE IF t_pc = "at814" THEN "in815"
             ELSE "in840"
  /\ UNCHANGED << selected_folder, files_to_upload, total_size_bytes,
                  validated_site_info, upload_in_progress, files_uploaded,
                  files_failed, last_progress_update, upload_btn, validate_btn,
                  select_folder_btn, validating, ui_queue, progress_shown,
                  tasks, futures, consumed, bytes_uploaded, completed_count,
                  on_disk, notifications, batch_no >>

\* lines 811-812, 815 and 840-841: the body of the with block, and its exit
lock_write ==
  /\ UNCHANGED << upload_vars, clicks >>
  /\ UNCHANGED << folder_results, remote_store, remote_folder >>
  /\ UNCHANGED input_vars
  /\ UNCHANGED << fallible, empty_appends, truncated, delivery_failed, last_validation >>
  /\ t_pc \in {"in811", "in815", "in840"}
  /\ upload_lock = "thread"
  /\ upload_lock' = "free"
  /\ LET rec == RecordResult(t_pc = "in811", files_uploaded, files_failed,
                             bytes_uploaded, FileBytes(tasks[Current]))
     IN /\ files_uploaded' = rec.up
        /\ files_failed' = rec.failed
        /\ bytes_uploaded' = rec.bytes
  /\ IF t_pc = "in840"
     THEN /\ completed_count' = completed_count + 1
          /\ t_pc' = "drain"
     ELSE /\ UNCHANGED completed_count
          /\ t_pc' = "at819"
  /\ UNCHANGED << selected_folder, files_to_upload, total_size_bytes,
                  validated_site_info, upload_in_progress,
                  last_progress_update, upload_btn, validate_btn,
                  select_folder_btn, validating, ui_queue, progress_shown,
                  tasks, futures, consumed, on_disk, notifications, batch_no >>

\* lines 819-835: the UI update is posted, the percentage is computed and
\* compared with last_progress_update, and upload_progress is sent; none of
\* it inside a with block
lock_progress ==
  /\ UNCHANGED << upload_vars, clicks >>
  /\ UNCHANGED << upload_lock, folder_results, remote_store, remote_folder >>
  /\ UNCHANGED input_vars
  /\ UNCHANGED << fallible, empty_appends, truncated, last_validation >>
  /\ t_pc = "at819"
  /\ LET total == Len(files_to_upload)
         shown == [ fn |-> "_update_progress_parallel",
                    completed |-> completed_count, total_files |-> total,
                    bytes_uploaded |-> bytes_uploaded ]
     IN
     /\ ui_queue' = Append(ui_queue, shown)
     /\ IF total = 0
        THEN \* line 824 raises
             /\ t_pc' = "at839"
             /\ UNCHANGED << notifications, delivery_failed,
                             last_progress_update >>
        ELSE IF ThresholdCrossed(ProgressPercent(completed_count, total),
                                 last_progress_update)
        THEN \E sent \in NotificationCalls :
               /\ notifications' = Append(notifications,
                    [ action |-> "upload_progress",
                      progress_percent |-> ProgressPercent(completed_count, total),
                      files_uploaded |-> files_uploaded,
                      files_remaining |-> total - completed_count ])
               /\ delivery_failed' = (delivery_failed \/ ~ sent.delivered)
               /\ IF sent.raised
                  THEN /\ t_pc' = "at839"
                       /\ UNCHANGED last_progress_update
                  ELSE /\ t_pc' = "drain"
                       /\ last_progress_update' =
                            ProgressPercent(completed_count, total)
        ELSE /\ t_pc' = "drain"
             /\ UNCHANGED << notifications, delivery_failed,
                             last_progress_update >>
  /\ UNCHANGED << selected_folder, files_to_upload, total_size_bytes,
                  validated_site_info, upload_in_progress, files_uploaded,
                  files_failed, upload_btn, validate_btn, select_folder_btn,
                  validating, progress_shown, tasks, futures, consumed,
                  bytes_uploaded, completed_count, on_disk, batch_no >>

\* lines 886-891: the UI thread starts a posted progress update and enters
\* `with self.upload_lock:`; a total of zero raises at line 888
update_progress_acquire ==
  /\ UNCHANGED << upload_vars, clicks >>
  /\ UNCHANGED << folder_results, remote_store, remote_folder >>
  /\ UNCHANGED input_vars
  /\ UNCHANGED << fallible, empty_appends, truncated, delivery_failed, last_validation >>
  /\ ui_queue # << >>
  /\ Head(ui_queue).fn = "_update_progress_parallel"
  /\ upload_lock = "free"
  /\ IF Head(ui_queue).total_files = 0
     THEN /\ ui_queue' = Tail(ui_queue)
          /\ UNCHANGED upload_lock
     ELSE /\ upload_lock' = "ui"
          /\ UNCHANGED ui_queue
  /\ UNCHANGED << selected_folder, files_to_upload, total_size_bytes,
                  validated_site_info, upload_in_progress, files_uploaded,
                  files_failed, last_progress_update, upload_btn, validate_btn,
                  select_folder_btn, validating, progress_shown, t_pc, tasks,
                  futures, consumed, bytes_uploaded, completed_count, on_disk,
                  notifications, batch_no >>

\* lines 892-913: the counters are read inside the with block and displayed
\* with the completed count that was passed when the update was posted
update_progress_read ==
  /\ UNCHANGED << upload_vars, clicks >>
  /\ UNCHANGED << folder_results, remote_store, remote_folder >>
  /\ UNCHANGED input_vars
  /\ UNCHANGED << fallible, empty_appends, truncated, delivery_failed, last_validation >>
  /\ upload_lock = "ui"
  /\ upload_lock' = "free"
  /\ ui_queue' = Tail(ui_queue)
  /\ progress_shown' = [ completed |-> Head(ui_queue).completed,
                         total_files |-> Head(ui_queue).total_files,
                         uploaded |-> files_uploaded,
                         failed |-> files_failed ]
  /\ UNCHANGED << selected_folder, files_to_upload, total_size_bytes,
                  validated_site_info, upload_in_progress, files_uploaded,
                  files_failed, last_progress_update, upload_btn, validate_btn,
                  select_folder_btn, validating, t_pc, tasks, futures,
                  consumed, bytes_uploaded, completed_count, on_disk,
                  notifications, batch_no >>

\* a batch of up to MaxLockTasks files when _upload_thread enters the
\* as_completed loop (line 800) after the pool has run every task
InitLock ==
  /\ InitUpload
  /\ disk_size = 0
  /\ has_callback = FALSE
  /\ fallible = {1}
  /\ \E n \in 1..MaxLockTasks :
       /\ StartedBatch(1..n)
       /\ tasks = ListOf(1..n)
       /\ \E failing \in SUBSET fallible :
            /\ futures = [ i \in 1..n |-> IF i \in failing THEN "false" ELSE "true" ]
            /\ remote_store = Committed((1..n) \ failing)
       /\ notifications =
            << [ action |-> "upload_started", file_count |-> n ] >>
  /\ t_pc = "drain"
  /\ delivery_failed = FALSE
  /\ clicks = MaxClicks - 1

NextLock ==
  \/ lock_result
  \/ lock_acquire
  \/ lock_write
  \/ lock_progress
  \/ upload_thread_finish
  \/ update_progress_acquire
  \/ update_progress_read
  \/ upload_terminal_handler
  \/ select_files
  \/ \E f \in 1..MaxLockTasks : FileRemoved(f)

SpecLock == InitLock /\ [][NextLock]_vars

\* ------------------------------------------------------------------------
\* Properties of upload_file (checked under Spec)
\* ------------------------------------------------------------------------
Returned == u_pc = "returned"

IsWrite(e) == e.op \in {"files_upload", "session_finish"}
IsSessionCall(e) ==
  e.op \in {"session_start", "session_append", "session_finish"}
IsStartOk(e) == e.op = "session_start" /\ e.result = "ok"
IsAppendOk(e) == e.op = "session_append" /\ e.result = "ok"
IsFinishOk(e) == e.op = "session_finish" /\ e.result = "ok"
IsFinish(e) == e.op = "session_finish"

\* the file measured at line 102 still has that size
ChunkedSuccess ==
  /\ Returned
  /\ result = "true"
  /\ file_size > CHUNK_SIZE
  /\ ~ file_changed

\* C1: if every attempt of an upload_file call raised a retryable ApiError,
\* the call made exactly MAX_RETRIES attempts and returned False.
C1_RetryableErrorsExhaustAttempts ==
  ( /\ Returned
    /\ attempts_made >= 1
    /\ \A a \in 0..(attempts_made - 1) :
         \E i \in 1..Len(call_log) :
           call_log[i].attempt = a /\ call_log[i].result = "api_error" )
  => (attempts_made = MAX_RETRIES /\ result = "false")

\* C2: an exception that is not an ApiError is retried: upload_file returns
\* after such an exception only when it was raised in the last of the
\* MAX_RETRIES attempts.
C2_TransportErrorsRetried ==
  ( /\ Returned
    /\ call_log # << >>
    /\ call_log[Len(call_log)].result = "exception" )
  => attempts_made = MAX_RETRIES

\* C3: a 'not_found' error ends upload_file at once: it is the last remote
\* call, the call returns False, no further attempt is begun, and a file
\* whose first attempt raises it is attempted exactly once.
C3_NotFoundIsTerminal ==
  \A i \in 1..Len(call_log) :
    call_log[i].result = "not_found" =>
      /\ i = Len(call_log)
      /\ Returned
      /\ result = "false"
      /\ attempts_made = call_log[i].attempt + 1
      /\ (call_log[i].attempt = 0 => attempts_made = 1)

C3_Witness ==
  /\ Returned
  /\ IsSmallFile(file_size)
  /\ Len(call_log) = 1
  /\ call_log[1].result = "not_found"
  /\ attempts_made = 1
  /\ result = "false"

\* C4: upload_file begins at most MAX_RETRIES attempts; a remote write that
\* succeeds is its last remote call and is followed only by the return of
\* True; True is returned only after a successful single-shot upload or
\* session finish.
C4_BoundedAttemptsAndSuccess ==
  /\ attempts_made <= MAX_RETRIES
  /\ \A i \in 1..Len(call_log) :
       (IsWrite(call_log[i]) /\ call_log[i].result = "ok") =>
         /\ i = Len(call_log)
         /\ call_log[i].attempt = attempts_made - 1
         /\ u_pc \in {"while", "returned"}
         /\ (u_pc = "while" => ~ LoopContinues(tell, file_size))
         /\ (Returned => result = "true")
  /\ (result = "true" =>
        \E i \in 1..Len(call_log) :
          IsWrite(call_log[i]) /\ call_log[i].result = "ok")

C4_Witness ==
  /\ Returned
  /\ result = "true"
  /\ attempts_made = MAX_RETRIES
  /\ Len(call_log) = MAX_RETRIES

\* C5 as stated: after a chunked upload without error, appends plus the
\* finish number ceil(S/C).
C5_AppendsPlusFinishIsCeil ==
  ChunkedSuccess =>
    CountLog(call_log, IsAppendOk) + CountLog(call_log, IsFinishOk)
      = CeilDiv(file_size, CHUNK_SIZE)

\* C5 amended: after a chunked upload without error there is one finish,
\* appends plus the finish number ceil(S/C) - 1, and with the session start,
\* which carries the first chunk, the session calls number ceil(S/C).
C5_SessionCallsAreCeil ==
  ChunkedSuccess =>
    /\ CountLog(call_log, IsFinishOk) = 1
    /\ CountLog(call_log, IsStartOk) = 1
    /\ CountLog(call_log, IsAppendOk) + CountLog(call_log, IsFinishOk)
         = CeilDiv(file_size, CHUNK_SIZE) - 1
    /\ Len(call_log) = CeilDiv(file_size, CHUNK_SIZE)

C5_Witness ==
  /\ ChunkedSuccess
  /\ file_size = MaxChunks * CHUNK_SIZE + 1
  /\ CountLog(call_log, IsAppendOk) = MaxChunks - 1

\* C6: in a chunked upload a chunk is sent with session finish exactly when
\* its read brought the read pointer to the file size, and with append
\* otherwise; a finish is the last remote call and there is at most one; an
\* upload without error made ceil(S/C) chunk reads and ended with its one
\* finish.
C6_LastChunkFinishes ==
  /\ \A i \in 1..Len(call_log) :
       /\ call_log[i].op = "session_append" => call_log[i].pos < file_size
       /\ call_log[i].op = "session_finish" =>
            (call_log[i].pos >= file_size /\ i = Len(call_log))
  /\ CountLog(call_log, IsFinish) <= 1
  /\ ChunkedSuccess =>
       /\ reads = CeilDiv(file_size, CHUNK_SIZE)
       /\ CountLog(call_log, IsFinishOk) = 1
       /\ IsFinishOk(call_log[Len(call_log)])
       /\ call_log[Len(call_log)].pos = file_size

C6_Witness ==
  /\ ChunkedSuccess
  /\ file_size = 2 * CHUNK_SIZE
  /\ reads = 2
  /\ IsFinishOk(call_log[Len(call_log)])

\* C7: the offsets sent on one session never decrease; every append and
\* finish carries the number of bytes the remote has acknowledged for the
\* session; after the session start and after each append the cursor offset
\* is the number of bytes read so far.
C7_OffsetTracksAcknowledgedBytes ==
  /\ \A i, j \in 1..Len(call_log) :
       ( /\ i < j
         /\ call_log[i].session_id >= 1
         /\ call_log[i].session_id = call_log[j].session_id )
       => call_log[i].offset <= call_log[j].offset
  /\ \A i \in 1..Len(call_log) :
       call_log[i].op \in {"session_append", "session_finish"} =>
         call_log[i].offset = call_log[i].acked
  /\ ( /\ u_pc = "while"
       /\ (IsStartOk(call_log[Len(call_log)]) \/ IsAppendOk(call_log[Len(call_log)])) )
     => (cursor.offset = tell /\ cursor.offset = Acked(cursor))

C7_Witness ==
  /\ ChunkedSuccess
  /\ CountLog(call_log, IsAppendOk) = 2
  /\ call_log[Len(call_log)].offset = 3 * CHUNK_SIZE

\* C8: for a file of at most CHUNK_SIZE bytes no session call is made, every
\* attempt makes exactly one single-shot upload, and that upload carries the
\* whole file in 'add' mode.
C8_SmallFileSingleShot ==
  (u_pc # "call" /\ file_size <= CHUNK_SIZE) =>
    /\ \A i \in 1..Len(call_log) :
         /\ ~ IsSessionCall(call_log[i])
         /\ call_log[i].op = "files_upload"
         /\ call_log[i].mode = "add"
         /\ (~ file_changed => call_log[i].len = file_size)
    /\ \A a \in 0..(attempts_made - 1) :
         Cardinality({ i \in 1..Len(call_log) : call_log[i].attempt = a })
           = IF a = attempts_made - 1 /\ u_pc = "single" THEN 0 ELSE 1

C8_Witness ==
  /\ Returned
  /\ result = "true"
  /\ ~ file_changed
  /\ file_size = CHUNK_SIZE
  /\ attempts_made = 2
  /\ Len(call_log) = 2
  /\ call_log[2].len = CHUNK_SIZE

\* ------------------------------------------------------------------------
\* Properties of a batch (checked under SpecBatch)
\* ------------------------------------------------------------------------
\* _upload_thread reached line 843 and sent its terminal notification
BatchCompleted ==
  /\ t_pc = "exit"
  /\ notifications # << >>
  /\ notifications[Len(notifications)].action
       \in {"upload_complete", "upload_failed"}

\* tasks of the batch whose upload_file returned True
SucceededTasks == { tasks[i] : i \in { j \in DOMAIN futures : futures[j] = "true" } }

\* C9: when a batch of N tasks completes, files_uploaded + files_failed = N
\* and bytes_uploaded is the sum of the sizes of the tasks whose upload
\* succeeded.
C9_AggregateConsistency ==
  BatchCompleted =>
    /\ files_uploaded + files_failed = Len(tasks)
    /\ bytes_uploaded = SumBytes(SucceededTasks)

\* C10: while a batch runs, files_uploaded + files_failed never exceeds the
\* number of its tasks.
C10_CountersWithinTaskCount ==
  (upload_in_progress /\ t_pc \in {"submit", "drain", "exit"}) =>
    files_uploaded + files_failed <= Len(tasks)

\* ------------------------------------------------------------------------
\* Progress notifications (C11 under SpecBatch, C12-C14 under SpecDrain)
\* ------------------------------------------------------------------------
IsProgress(n) == n.action = "upload_progress"

\* the upload_progress notifications of the batch, in the order sent
ProgressSent == SelectSeq(notifications, IsProgress)

\* the completion at which each of them was sent
CompletionsNotified ==
  [ k \in 1..Len(ProgressSent) |-> Len(tasks) - ProgressSent[k].files_remaining ]

\* a completed batch whose list was not changed, whose files all stayed on
\* the disk, and whose completions were each counted once
CleanRun ==
  /\ BatchCompleted
  /\ files_to_upload = tasks
  /\ Range(tasks) \subseteq on_disk
  /\ completed_count = Len(tasks)

\* C11: in every turn of the as_completed loop the progress percentage is
\* floor(completed * 100 / total) for the number of tasks completed so far;
\* an upload_progress notification carrying it is sent exactly when it
\* exceeds last_progress_update by at least PROGRESS_UPDATE_THRESHOLD; then
\* last_progress_update becomes that percentage, and otherwise neither the
\* notifications nor last_progress_update change.
C11_ProgressNotificationRule ==
  [][ ( /\ Cardinality(consumed') = Cardinality(consumed) + 1
        /\ Len(files_to_upload) > 0 )
      => LET percent == ProgressPercent(Cardinality(consumed'),
                                        Len(files_to_upload))
         IN IF ThresholdCrossed(percent, last_progress_update)
            THEN /\ Len(notifications') = Len(notifications) + 1
                 /\ IsProgress(notifications'[Len(notifications')])
                 /\ notifications'[Len(notifications')].progress_percent = percent
                 /\ last_progress_update' = percent
            ELSE UNCHANGED << notifications, last_progress_update >> ]_vars

\* C12: the progress percentages notified in one batch start at least
\* PROGRESS_UPDATE_THRESHOLD above 0, each is at least
\* PROGRESS_UPDATE_THRESHOLD above the one before, and last_progress_update
\* always is the last of them (0 while there is none), so it only increases
\* and by at least the threshold each time.
C12_NotifiedPercentIncreasesByThreshold ==
  /\ \A k \in 1..Len(ProgressSent) :
       ProgressSent[k].progress_percent
         - (IF k = 1 THEN 0 ELSE ProgressSent[k - 1].progress_percent)
         >= PROGRESS_UPDATE_THRESHOLD
  /\ last_progress_update =
       IF ProgressSent = << >> THEN 0
       ELSE ProgressSent[Len(ProgressSent)].progress_percent

C12_Witness ==
  /\ CleanRun
  /\ Len(tasks) = 10
  /\ Len(ProgressSent) = 3
  /\ ProgressSent[1].progress_percent = 30
  /\ ProgressSent[2].progress_percent = 60
  /\ ProgressSent[3].progress_percent = 90
  /\ last_progress_update = 90

\* C13: in a completed batch of 10 files the upload_progress notifications
\* were sent at the completions 3, 6, 8 and 10.
C13_TenFilesNotifyAt3And6And8And10 ==
  (CleanRun /\ Len(tasks) = 10) => CompletionsNotified = << 3, 6, 8, 10 >>

\* C14: in every completed batch exactly one upload_progress notification
\* carries progress_percent = 100.
C14_FinalProgressNotificationAt100 ==
  CleanRun =>
    Cardinality({ k \in 1..Len(ProgressSent) :
                    ProgressSent[k].progress_percent = 100 }) = 1

\* ------------------------------------------------------------------------
\* The worker pool (C15 under SpecPoolFair)
\* ------------------------------------------------------------------------
\* C15: at every instant at most PARALLEL_UPLOADS tasks are inside
\* _upload_single_file, and every task that was submitted to the pool is
\* eventually taken by a worker.
C15_PoolBoundAndEveryTaskRuns ==
  /\ [](Cardinality(Running) <= PARALLEL_UPLOADS)
  /\ \A i \in 1..MaxPoolTasks :
       (i \in DOMAIN futures /\ futures[i] = "queued")
         ~> (i \in DOMAIN futures /\ futures[i] \in {"running", "true", "false"})

\* the first half of C15 alone
C15_PoolBound == Cardinality(Running) <= PARALLEL_UPLOADS

\* ------------------------------------------------------------------------
\* Terminal outcome, validation and notification failures (under SpecBatch)
\* ------------------------------------------------------------------------
IsTerminal(n) == n.action \in {"upload_complete", "upload_failed"}

\* the terminal notifications sent for the batch
TerminalSent == SelectSeq(notifications, IsTerminal)

\* _upload_thread got past line 774 and has left its try block
ThreadEnded == t_pc = "exit" /\ notifications # << >>

\* C16: while the tasks of a batch are still reporting no terminal
\* notification has been sent; when _upload_thread has ended after all of
\* them reported, exactly one has been sent and it is the last notification:
\* upload_complete, with _upload_complete_success posted, exactly when
\* files_failed = 0, and otherwise upload_failed carrying files_failed, with
\* _upload_complete_partial posted.
C16_OneTerminalNotification ==
  /\ Len(TerminalSent) <= 1
  /\ t_pc \in {"begin", "pool", "submit", "drain"} => TerminalSent = << >>
  /\ ThreadEnded =>
       LET last == notifications[Len(notifications)] IN
       /\ Len(TerminalSent) = 1
       /\ IsTerminal(last)
       /\ consumed = DOMAIN futures
       /\ (last.action = "upload_complete") = (files_failed = 0)
       /\ last.action = "upload_failed" => last.files_failed = files_failed
       /\ upload_in_progress =>
            /\ ui_queue # << >>
            /\ ui_queue[Len(ui_queue)].fn =
                 IF files_failed = 0 THEN "_upload_complete_success"
                 ELSE "_upload_complete_partial"

C16_Witness ==
  /\ ThreadEnded
  /\ upload_in_progress
  /\ Len(tasks) = 2
  /\ files_uploaded = 1
  /\ files_failed = 1
  /\ notifications[Len(notifications)].action = "upload_failed"
  /\ notifications[Len(notifications)].files_failed = 1

\* C17: a completed batch in which the upload of exactly one file returned
\* False and every other upload returned True has files_uploaded = N - 1 and
\* files_failed = 1, and its one terminal notification is upload_failed with
\* files_failed = 1.
C17_OneFailureLeavesTheOthersCounted ==
  ( /\ BatchCompleted
    /\ Cardinality({ i \in DOMAIN futures : futures[i] = "false" }) = 1
    /\ \A i \in DOMAIN futures : futures[i] \in {"true", "false"} )
  => /\ files_uploaded = Len(tasks) - 1
     /\ files_failed = 1
     /\ Len(TerminalSent) = 1
     /\ TerminalSent[1].action = "upload_failed"
     /\ TerminalSent[1].files_failed = 1

\* C18: from the submission of the tasks until the thread ends, the list of
\* files, its length and the total size are those the batch was started with.
C18_BatchImmutableWhileUploading ==
  (upload_in_progress /\ t_pc \in {"submit", "drain"}) =>
    /\ files_to_upload = tasks
    /\ total_size_bytes = SumBytes(Range(tasks))

\* C19: no upload is started while the latest validation is a failed one.
C19_FailedValidationBlocksUpload ==
  [][ last_validation = "failed" => batch_no' = batch_no ]_vars

\* C20: whatever the webhook answers, a step of _upload_thread that sends a
\* notification goes on as after a delivered one: after upload_started the
\* thread builds the pool, after upload_progress the result of the task is
\* counted once and the loop continues, after the terminal notification the
\* matching handler is posted; the failure handler is never posted and no
\* counter changes because of the notification.
C20_NotificationFailureIsNotFatal ==
  [][ Len(notifications') = Len(notifications) + 1 =>
      LET sent == notifications'[Len(notifications')] IN
      /\ sent.action = "upload_started" =>
           /\ t_pc' = "pool"
           /\ UNCHANGED << ui_queue, files_uploaded, files_failed, futures >>
      /\ sent.action = "upload_progress" =>
           LET i == CHOOSE j \in consumed' : j \notin consumed
               rec == RecordResult(futures[i] = "true", files_uploaded,
                                   files_failed, bytes_uploaded,
                                   FileBytes(tasks[i]))
           IN /\ t_pc' = t_pc
              /\ files_uploaded' = rec.up
              /\ files_failed' = rec.failed
              /\ bytes_uploaded' = rec.bytes
              /\ completed_count' = completed_count + 1
              /\ last_progress_update' = sent.progress_percent
              /\ UNCHANGED futures
      /\ IsTerminal(sent) =>
           /\ t_pc' = "exit"
           /\ ui_queue'[Len(ui_queue')].fn =
                IF files_failed = 0 THEN "_upload_complete_success"
                ELSE "_upload_complete_partial"
           /\ UNCHANGED << files_uploaded, files_failed, futures >> ]_vars

C20_Witness ==
  /\ delivery_failed
  /\ BatchCompleted
  /\ Len(tasks) = 2
  /\ files_uploaded = 2
  /\ files_failed = 0
  /\ Len(ProgressSent) = 2

\* ------------------------------------------------------------------------
\* Exceptions in _upload_thread (under SpecBatch)
\* ------------------------------------------------------------------------
\* the try block was left through its handler before upload_started was sent
ThreadFailedAtTopLevel == t_pc = "exit" /\ notifications = << >> /\ batch_no > 0

\* the handler of the as_completed loop body (lines 837-841) has caught an
\* exception: it is the only place that counts a completion twice
CaughtInLoop ==
  /\ t_pc \in {"drain", "exit"}
  /\ notifications # << >>
  /\ completed_count > Cardinality(consumed)

\* C21 as stated: whenever an exception was raised in _upload_thread, the
\* thread ends by posting _upload_failed (the generic failure state), and no
\* other terminal handler.
C21_AnyExceptionEndsInUploadFailed ==
  ( /\ t_pc = "exit"
    /\ upload_in_progress
    /\ ThreadFailedAtTopLevel \/ CaughtInLoop )
  => /\ ui_queue # << >>
     /\ ui_queue[Len(ui_queue)].fn = "_upload_failed"

\* C21, amended: an exception that reaches the handler of the try block of
\* _upload_thread (failure to build the storage client) ends the thread with
\* _upload_failed posted as the only callback, and once the UI thread has run
\* it upload_in_progress is false; the thread itself never ends otherwise.
C21_TopLevelExceptionIsReported ==
  ThreadFailedAtTopLevel =>
    \/ upload_in_progress /\ Len(ui_queue) = 1 /\ ui_queue[1].fn = "_upload_failed"
    \/ ~ upload_in_progress /\ ui_queue = << >>

C21_Witness ==
  /\ ThreadFailedAtTopLevel
  /\ ~ upload_in_progress
  /\ files_to_upload = << >>
  /\ futures = << >>


\* ------------------------------------------------------------------------
\* The UI progress updates (under SpecDrain, where the posted callbacks stay
\* in the queue of the UI thread)
\* ------------------------------------------------------------------------
IsProgressCallback(c) == c.fn = "_update_progress_parallel"

\* the progress updates scheduled with root.after so far
UpdatesScheduled == SelectSeq(ui_queue, IsProgressCallback)

\* C22: one UI progress update has been scheduled for every completion
\* processed so far, whether the task succeeded or not and whether the
\* notification threshold was crossed or not; a finished batch of N tasks has
\* scheduled exactly N.
C22_OneUIUpdatePerCompletion ==
  Len(UpdatesScheduled) = Cardinality(consumed)


\* ------------------------------------------------------------------------
\* The upload lock (under SpecLock)
\* ------------------------------------------------------------------------
\* C23: what a UI progress update displays belongs to one completion event:
\* in a batch whose list was not changed and whose files are all on disk,
\* the completed count it shows is the sum of the uploaded and the failed
\* count it shows.
C23_ShownValuesAreOneSnapshot ==
  ( /\ progress_shown # NothingShown
    /\ files_to_upload = tasks
    /\ Range(tasks) \subseteq on_disk )
  => progress_shown.completed = progress_shown.uploaded + progress_shown.failed

\* C24: every step that writes files_uploaded, files_failed, bytes_uploaded
\* or last_progress_update, or that copies one of them into a notification
\* or into the progress display, is taken by a thread that holds upload_lock.
C24_ProgressStateOnlyUnderLock ==
  [][ ( \/ files_uploaded' # files_uploaded
        \/ files_failed' # files_failed
        \/ bytes_uploaded' # bytes_uploaded
        \/ last_progress_update' # last_progress_update
        \/ notifications' # notifications
        \/ progress_shown' # progress_shown )
      => upload_lock # "free" ]_vars


\* ------------------------------------------------------------------------
\* Tasks and their destinations (under SpecConflict)
\* ------------------------------------------------------------------------
\* the steps a task takes through the pool
TaskSteps ==
  { << "unsubmitted", "queued" >>, << "queued", "running" >>,
    << "running", "true" >>, << "running", "false" >> }

\* C25: every file of the batch is one task; a task is submitted once, is
\* taken by a worker once and gets one result, which never changes; and
\* the files committed to the remote are exactly the tasks with result True,
\* each at the path made of the folder of the batch and its basename.
C25_EachTaskRunsOnceToItsPath ==
  /\ [](/\ \A i, j \in DOMAIN tasks : tasks[i] = tasks[j] => i = j
        /\ DOMAIN futures # {} =>
             remote_store = { << Basename(tasks[i]), tasks[i] >> :
                                i \in { k \in DOMAIN futures : futures[k] = "true" } })
  /\ [][ \A i \in DOMAIN futures \cap DOMAIN futures' :
           futures'[i] # futures[i] =>
             << futures[i], futures'[i] >> \in TaskSteps ]_vars

C25_Witness ==
  /\ t_pc = "exit"
  /\ Len(tasks) = 3
  /\ consumed = DOMAIN futures
  /\ Cardinality(remote_store) = 2
  /\ files_uploaded = 2

\* C30: of two tasks of a batch with the same basename at most one has the
\* result True; when the batch has ended with both processed, a failed file
\* was counted and upload_failed was sent; and no file committed to the
\* remote is ever replaced or removed.
C30_SameBasenameNeverOverwrites ==
  /\ [](\A i, j \in DOMAIN futures :
          (i # j /\ Basename(tasks[i]) = Basename(tasks[j])) =>
            /\ ~ (futures[i] = "true" /\ futures[j] = "true")
            /\ (t_pc = "exit" /\ {i, j} \subseteq consumed) =>
                 /\ files_failed >= 1
                 /\ notifications[Len(notifications)].action = "upload_failed")
  /\ [][ remote_store \subseteq remote_store' ]_vars

C30_Witness ==
  /\ t_pc = "exit"
  /\ tasks = << 0 - 2, 2 >>
  /\ futures = << "false", "true" >>
  /\ remote_store = { << 2, 2 >> }
  /\ files_uploaded = 1
  /\ files_failed = 1
  /\ notifications[Len(notifications)].action = "upload_failed"


C27_CreateFolderIdempotentElseFalse ==
  \A k \in 1..Len(folder_results) :
    LET call == folder_results[k] IN
    /\ call.outcome = "ok" => (call.returned = "true" /\ call.after = "folder")
    /\ call.outcome = "conflict_folder" =>
         (call.returned = "true" /\ call.after = call.before)
    /\ call.outcome \notin {"ok", "conflict_folder"} => call.returned = "false"


\* ------------------------------------------------------------------------
\* The progress callback and the session of one upload_file call (under Spec)
\* ------------------------------------------------------------------------
IsCallOk(e) == e.result = "ok"

\* C28: with a progress callback supplied, the callback is invoked once after
\* every remote call that succeeds and never otherwise, always with the file
\* size as total; on the single-shot path that is at most once, with (S, S),
\* and exactly once when the upload succeeds; on the chunked path the k-th
\* invocation carries the read position after the k-th session call, these
\* positions increase strictly while the file keeps its size, and a
\* successful chunked upload made ceil(S/C) invocations, the last with S.
C28_CallbackAfterEveryChunkOperation ==
  /\ ~ has_callback => callbacks = << >>
  /\ has_callback =>
       /\ Len(callbacks) = CountLog(call_log, IsCallOk)
       /\ \A k \in 1..Len(callbacks) : callbacks[k][2] = file_size
       /\ (u_pc # "call" /\ file_size <= CHUNK_SIZE) =>
            /\ Len(callbacks) <= 1
            /\ \A k \in 1..Len(callbacks) :
                 callbacks[k] = << file_size, file_size >>
            /\ (Returned /\ result = "true") => Len(callbacks) = 1
       /\ file_size > CHUNK_SIZE =>
            /\ \A k \in 1..Len(callbacks) :
                 /\ IsSessionCall(call_log[k])
                 /\ IsCallOk(call_log[k])
                 /\ callbacks[k][1] = call_log[k].pos
            /\ ~ file_changed =>
                 \A j, k \in 1..Len(callbacks) :
                   j < k => callbacks[j][1] < callbacks[k][1]
            /\ ChunkedSuccess =>
                 /\ Len(callbacks) = CeilDiv(file_size, CHUNK_SIZE)
                 /\ callbacks[Len(callbacks)][1] = file_size

C28_Witness ==
  /\ has_callback
  /\ ChunkedSuccess
  /\ Len(callbacks) = 3
  /\ callbacks[1] = << CHUNK_SIZE, file_size >>
  /\ callbacks[3] = << file_size, file_size >>

\* the session id that the session start at position j of the log returned
SessionIdReturnedAt(j) ==
  Cardinality({ m \in 1..j : IsStartOk(call_log[m]) })

\* C29: every append and finish carries the session id that the session
\* start of the same attempt returned; no session id is used in two
\* attempts; after a session call fails no later call is made on that
\* session; every attempt of a file above CHUNK_SIZE begins with a session
\* start that carries the chunk read at offset 0.
C29_SessionNeverReused ==
  /\ \A i \in 1..Len(call_log) :
       call_log[i].op \in {"session_append", "session_finish"} =>
         \E j \in 1..(i - 1) :
           /\ IsStartOk(call_log[j])
           /\ call_log[j].attempt = call_log[i].attempt
           /\ call_log[i].session_id = SessionIdReturnedAt(j)
  /\ \A i, j \in 1..Len(call_log) :
       ( /\ call_log[i].session_id >= 1
         /\ call_log[i].session_id = call_log[j].session_id )
       => call_log[i].attempt = call_log[j].attempt
  /\ \A i, j \in 1..Len(call_log) :
       ( /\ i < j
         /\ IsSessionCall(call_log[i])
         /\ ~ IsCallOk(call_log[i]) )
       => ( \/ call_log[j].session_id < 1
            \/ call_log[j].session_id # call_log[i].session_id )
  /\ \A i \in 1..Len(call_log) :
       ( /\ file_size > CHUNK_SIZE
         /\ \A m \in 1..(i - 1) : call_log[m].attempt # call_log[i].attempt )
       => /\ call_log[i].op = "session_start"
          /\ call_log[i].pos - call_log[i].len = 0
          /\ call_log[i].acked = 0

C29_Witness ==
  /\ Returned
  /\ result = "false"
  /\ Len(call_log) = 3
  /\ IsStartOk(call_log[1])
  /\ IsAppendOk(call_log[2])
  /\ call_log[3].op = "session_append"
  /\ call_log[3].result = "api_error"
  /\ call_log[3].session_id = call_log[2].session_id

\* ------------------------------------------------------------------------
\* The webhook calls of the form (under SpecWebhook)
\* ------------------------------------------------------------------------
IsValidateCall(e) == e.call = "validate_site"

\* the validate_site calls made so far
ValidateCalls == SelectSeq(webhook_results, IsValidateCall)

\* no answer in time, no connection, or an answer that is no JSON object
FailedExchanges == {"timeout", "connection_error", "not_json", "not_object"}

\* C31: request_config and validate_site never raise; for a timeout, a
\* failed connection and a malformed answer they return success = false
\* with both 'error' and 'message'; and the caller treats a failure as an
\* error state: after a failed request_config no validation is started, and
\* after a failed validate_site no validation is stored and the upload
\* button is disabled.
C31_WebhookFailureIsStructuredAndBlocks ==
  /\ \A k \in 1..Len(webhook_results) :
       LET e == webhook_results[k] IN
       /\ ~ e.returned.raised
       /\ e.response \in FailedExchanges =>
            /\ e.returned.success = "false"
            /\ e.returned.error
            /\ e.returned.message
  /\ ( /\ webhook_results # << >>
       /\ webhook_results[1].response \in FailedExchanges )
     => (validation_args = NoArgs /\ ~ validating)
  /\ ( /\ ValidateCalls # << >>
       /\ ValidateCalls[Len(ValidateCalls)].response \in FailedExchanges )
     => (upload_btn = "disabled" /\ ~ validated_site_info.success)

\* ------------------------------------------------------------------------
\* What a batch starts with (under SpecBatch and SpecInputs)
\* ------------------------------------------------------------------------
\* C32: whenever _upload_thread has been started the list of files to
\* upload is not empty, and no upload_complete notification reports zero
\* files.
C32_BatchNeverStartsEmpty ==
  /\ t_pc = "begin" => files_to_upload # << >>
  /\ \A k \in 1..Len(notifications) :
       notifications[k].action = "upload_complete" =>
         notifications[k].files_uploaded > 0

\* C33: when _start_upload starts a batch, the stored validation is a
\* success that was obtained for the market, the site ID, the content type
\* and the number of files that the form holds at that moment.
C33_ValidationMatchesInputsAtStart ==
  [][ batch_no' = batch_no + 1 =>
        /\ validated_site_info.success
        /\ validated_site_info.market = selected_market
        /\ validated_site_info.site_id = site_id_var
        /\ validated_site_info.content_type = content_type
        /\ validated_site_info.file_count = Len(files_to_upload) ]_vars

\* ------------------------------------------------------------------------
\* Accounting of the completions (under SpecDrain)
\* ------------------------------------------------------------------------
\* C34: in the as_completed loop every yielded future adds exactly 1 to
\* completed_count and exactly 1 to one of files_uploaded and files_failed,
\* and files_failed counts only futures whose upload returned False, also
\* when processing a result raises.
C34_EachCompletionAccountedOnce ==
  t_pc \in {"drain", "exit"} =>
    /\ completed_count = Cardinality(consumed)
    /\ files_uploaded + files_failed = Cardinality(consumed)
    /\ files_failed = Cardinality({ i \in consumed : futures[i] = "false" })

\* ------------------------------------------------------------------------
\* Termination (under SpecPoolFair)
\* ------------------------------------------------------------------------
\* C35: every upload that a worker has begun returns: a task that is
\* running eventually has a result, also when its file has become shorter
\* than the size measured at dropbox_uploader.py line 102.
C35_ChunkedUploadReturns ==
  \A i \in 1..MaxPoolTasks :
    (i \in DOMAIN futures /\ futures[i] = "running")
      ~> (i \in DOMAIN futures /\ futures[i] \in {"true", "false"})

\* the terminal handlers that are posted to the UI thread and not yet run
IsTerminalHandler(e) ==
  e.fn \in {"_upload_complete_success", "_upload_complete_partial", "_upload_failed"}

\* C36: at most one terminal handler is posted for a batch, and every batch
\* whose _upload_thread has started eventually has its terminal handler run:
\* the thread has left, upload_in_progress is false, the selection and the
\* validation are cleared and the folder button is enabled again.
C36_BatchReachesTerminalHandler ==
  /\ [](Len(SelectSeq(ui_queue, IsTerminalHandler)) <= 1)
  /\ (t_pc = "begin")
       ~> ( /\ t_pc = "exit"
            /\ ~ upload_in_progress
            /\ select_folder_btn = "normal"
            /\ upload_btn = "disabled"
            /\ files_to_upload = << >>
            /\ ~ validated_site_info.success )

\* ------------------------------------------------------------------------
\* Order of the notifications of a batch (C38 under SpecBatch)
\* ------------------------------------------------------------------------
IsStarted(n) == n.action = "upload_started"

\* the tasks handed to the pool so far
Submitted == { i \in DOMAIN futures : futures[i] # "unsubmitted" }

\* C38: the notifications of a batch are ordered. upload_started is the
\* first notification and no later one is an upload_started, and it has been
\* sent when a task is submitted to the pool; so every upload_progress comes
\* after it. A terminal notification (upload_complete or upload_failed) is
\* the last notification sent and comes after upload_started; so every
\* upload_progress comes before it and nothing is sent after it.
C38_NotificationsOrdered ==
  /\ \A j \in 1..Len(notifications) :
       IsStarted(notifications[j]) <=> j = 1
  /\ Submitted # {} => notifications # << >>
  /\ \A j \in 1..Len(notifications) :
       IsTerminal(notifications[j]) => j = Len(notifications) /\ j > 1

\* a batch that sent upload_started, an upload_progress and its terminal
\* notification
C38_Witness ==
  /\ t_pc = "exit"
  /\ Len(notifications) >= 3
  /\ IsStarted(notifications[1])
  /\ IsProgress(notifications[2])
  /\ IsTerminal(notifications[Len(notifications)])
  /\ Submitted = DOMAIN futures

\* ------------------------------------------------------------------------
\* One batch at a time, each from zero (C37, C39 under SpecRerun)
\* ------------------------------------------------------------------------
\* _upload_thread of the current batch has not returned
ThreadAlive == t_pc \notin {"none", "exit"}

\* C37: at most one batch is active. While upload_in_progress is true no
\* step starts a batch: no thread is started at the entry of _upload_thread
\* and the number of started batches stays. upload_in_progress is true as
\* long as the thread of the batch has not returned, so a thread is only
\* started after the one before it has returned.
C37_AtMostOneBatchActive ==
  /\ [](ThreadAlive => upload_in_progress)
  /\ [][ upload_in_progress =>
           /\ batch_no' = batch_no
           /\ (t_pc' = "begin" => t_pc = "begin") ]_vars

\* Start Upload can be pressed while the first batch is in progress: a
\* validation that returned during the batch has enabled the button again
C37_Witness ==
  /\ upload_in_progress
  /\ ThreadAlive
  /\ batch_no = 1
  /\ upload_btn = "normal"
  /\ validated_site_info.success
  /\ clicks < MaxClicks
  /\ clicks > 0

\* C39: progress state does not leak between batches. When the thread of a
\* batch starts, the succeeded and failed counts and the last notified
\* percentage are 0, and they still are when it submits its tasks with the
\* bytes transferred and the count of completions at 0.
C39_BatchStartsFromZero ==
  /\ t_pc \in {"begin", "pool", "submit"} =>
       /\ files_uploaded = 0
       /\ files_failed = 0
       /\ last_progress_update = 0
  /\ t_pc = "submit" =>
       /\ bytes_uploaded = 0
       /\ completed_count = 0

\* the second batch of the run submits its tasks; the first batch ended
\* with one file counted as uploaded or as failed
C39_Witness ==
  /\ batch_no = MaxBatches + 1
  /\ t_pc = "submit"
  /\ Submitted # {}
  /\ files_uploaded + files_failed = 0

====
